---- MODULE Spec2Model ----
(***************************************************************************)
(* Usage ledger of the EarnKit backend: the track / capture / release      *)
(* route handlers and the top-up confirmation worker, over a PostgreSQL    *)
(* store accessed through Prisma.                                          *)
(*                                                                         *)
(* Store semantics (PostgreSQL, default isolation READ COMMITTED):         *)
(*  - every statement reads the rows committed at the moment it runs;      *)
(*  - a write inside an interactive transaction ($transaction) stays in    *)
(*    the transaction's write set and locks the row until COMMIT/ROLLBACK; *)
(*  - an UPDATE of a row locked by another transaction waits, and          *)
(*    evaluates its WHERE on the row as committed once the lock is gone;   *)
(*  - an INSERT colliding on a unique index with another transaction's     *)
(*    uncommitted INSERT waits for that transaction to end.                *)
(*  - an INSERT checks its foreign key against the committed Agent row and *)
(*    waits for an uncommitted DELETE of it; a DELETE of an Agent row      *)
(*    waits for uncommitted INSERTs referencing it and is refused while a  *)
(*    committed row references it (ON DELETE RESTRICT).                    *)
(* Waiting is modelled by the waiting statement's action being disabled.   *)
(*                                                                         *)
(* Amounts: ethBalance / feeDeducted / rate are exact decimals             *)
(* (DECIMAL(65,30), Prisma.Decimal); they are modelled as integer          *)
(* multiples of one unit of 0.001 ETH (the agent's rate).  Credits are     *)
(* BIGINT.                                                                 *)
(***************************************************************************)
EXTENDS Integers, Sequences, FiniteSets, Bags, TLC

(* ------------------------------ bounds --------------------------------- *)
MaxReqs == 3          \* number of track/capture/release requests in a run
MaxTopUps == 1        \* number of top-up submissions in a run
MaxOps == 4           \* number of requests and top-up submissions together in a run

(* ---------------------------- value domains ---------------------------- *)
Null == <<>>                         \* SQL NULL / JS null / undefined
Some(v) == <<v>>                     \* a present nullable value
IsNull(x) == x = <<>>
Val(x) == x[1]

Wallets == {"w1"}
AgentIds == {"aFree", "aCredit"}     \* rows of the Agent table
UnknownAgent == "aNone"              \* a well-formed cuid with no Agent row
Keys == {"k1"}                       \* idempotency keys (uuid)
TxHashSeq == <<"h1", "h2", "h3">>     \* transaction hashes, in order of use
NoSuchEvent == 0                     \* a well-formed cuid with no UsageEvent row

FREE_TIER == "FREE_TIER"
CREDIT_BASED == "CREDIT_BASED"

\* Agent rows as written by the agents API (config shape matching the type).
AgentConfigs ==
    { [a \in AgentIds |->
         IF a = "aFree"
         THEN [feeModelType |-> FREE_TIER, threshold |-> t, rate |-> 1,
               creditsPerPrompt |-> 0]
         ELSE [feeModelType |-> CREDIT_BASED, threshold |-> 0, rate |-> 0,
               creditsPerPrompt |-> 2]] : t \in {0, 1} }

CreditsToDeductChoices == {Null, Some(1)}     \* optional positive int
AmountInEthChoices == {"0.002"}               \* deposits, as decimal strings

\* new Prisma.Decimal(s): the value of a decimal string in units of 0.001 ETH
\* (the agent's rate); a string that is no decimal number throws.
DecimalOf(s) ==
    IF s = "0.001" THEN Some(1)
    ELSE IF s = "0.002" THEN Some(2)
    ELSE IF s = "-0.001" THEN Some(0 - 1)
    ELSE Null
CreditsToTopUpChoices == {Null, Some(3)}      \* optional positive int

VARIABLES
    agent,             \* Agent table: id -> fee model
    userBalance,       \* committed UserBalance rows, keyed <<wallet, agentId>>
    usageEvent,        \* committed UsageEvent rows, keyed by id
    topUpTransaction,  \* committed TopUpTransaction rows, keyed by txHash
    inflight,          \* bag of the requests whose handler is running
    answered,          \* bag of the requests that got their response
    nextId,            \* next UsageEvent id (cuid generator)
    chat,              \* example agent: the chat page's handleSubmit
    call,              \* SDK: the _apiCall in progress
    poll               \* SDK: the pollForBalanceUpdate in progress

\* The client side: the example agent's page and the SDK.
clientVars == <<chat, call, poll>>

vars == <<agent, userBalance, usageEvent, topUpTransaction, inflight, answered, nextId,
          chat, call, poll>>

(* ------------------------------- clients ------------------------------- *)
\* handleSubmit is not running: no message is being handled.
ChatIdle == [pc |-> "idle", eventId |-> Null, outcome |-> "none"]

\* pollForBalanceUpdate has not been called.
NoPoll == [interval |-> "none", pollCount |-> 0, maxPolls |-> 0, pending |-> 0,
           walletAddress |-> "", agentId |-> "",
           initialBalance |-> [eth |-> "0", credits |-> "0"],
           currentBalance |-> Null, confirmations |-> 0, timeouts |-> 0]

\* An error value: an EarnKitApiError with its status ("api"), a rejected
\* fetch ("network"), an aborted fetch ("abort"), a body that is not JSON
\* ("syntax").
NoError == [type |-> "none", status |-> 0]
NoResponse == [status |-> 0, json |-> FALSE]

\* No _apiCall is running.
NoCall == [pc |-> "none", n |-> 0, request |-> Null, i |-> 0, timer |-> "none",
           response |-> NoResponse, lastError |-> NoError,
           delays |-> <<>>, result |-> 0]

(* ------------------------------ requests ------------------------------- *)
\* JSON value of the eventId field in a track response body.
JsonString(id) == [tag |-> "string", val |-> id]
JsonObject(id) == [tag |-> "object", val |-> id]     \* { eventId: id }
NoBody == [tag |-> "none", val |-> 0]

NoBalWrite == <<>>
NoEvInsert == <<>>

\* A request as it arrives; the locals of its handler are filled in by the steps.
NewReq(kind, pc) ==
    [kind |-> kind, pc |-> pc,
     agentId |-> UnknownAgent, walletAddress |-> "w1",
     idempotencyKey |-> Null, creditsToDeduct |-> Null,
     eventId |-> NoSuchEvent,
     attempt |-> Null,             \* SDK: the call and attempt that sent it
     txHash |-> Null,              \* top-up submission / confirmation: the hash
     feeModel |-> Null,            \* the agent's fee model as the handler read it
     feeToDeduct |-> Null, creditsCost |-> Null,
     balWrite |-> NoBalWrite,      \* uncommitted UserBalance update
     evInsert |-> NoEvInsert,      \* uncommitted UsageEvent insert
     evCancel |-> FALSE,           \* uncommitted UsageEvent status update
     refunded |-> FALSE,           \* release: refund statement settled
     delBalances |-> {},           \* delete: uncommitted UserBalance deletes
     delEvents |-> {},             \* delete: uncommitted UsageEvent deletes
     delAgent |-> FALSE,           \* delete: uncommitted Agent delete
     fault |-> FALSE,              \* the store failed under a statement
     status |-> 0,                 \* HTTP status of the response, 0 = none yet
     body |-> NoBody]

Running == BagToSet(inflight)
Answers == BagToSet(answered)
NumReqs == BagCardinality(inflight) + BagCardinality(answered)

\* (mutant) no unique index: concurrent inserts of one key do not wait.
KeyInsertPending_NoIndex(a, k) == FALSE

\* (mutant) an update does not lock the row: a concurrent update does not
\* wait and evaluates its WHERE on the row as last committed.
BalLocked_Never(w, a) == FALSE

\* Row locks held by running transactions.  The statement that asks never
\* runs in a transaction that already holds the lock it asks for.
BalLocked(w, a) ==
    \E s \in Running : \/ s.balWrite # NoBalWrite /\ s.balWrite[1].key = <<w, a>>
                       \/ <<w, a>> \in s.delBalances
EvLocked(e) ==
    \E s \in Running : (s.evCancel /\ s.eventId = e) \/ e \in s.delEvents
\* The Agent row is locked by its uncommitted DELETE: a statement that checks
\* a foreign key to it waits.
AgentLocked(a) ==
    \E s \in Running : s.delAgent /\ s.agentId = a
KeyInsertPending(a, k) ==
    \E s \in Running : /\ s.evInsert # NoEvInsert
                       /\ s.evInsert[1].row.agentId = a
                       /\ s.evInsert[1].row.idempotencyKey = k

(* --------------------------- store primitives -------------------------- *)
HasBalance(w, a) == <<w, a>> \in DOMAIN userBalance

\* (mutant) the balance update is lost at commit.
BalanceAfter_Lost(q) == userBalance

\* COMMIT: the write set of transaction q becomes visible atomically.
BalanceAfter(q) ==
    IF q.balWrite = NoBalWrite THEN userBalance
    ELSE LET wr == q.balWrite[1]
         IN [userBalance EXCEPT
               ![wr.key] = [ethBalance |-> @.ethBalance + wr.eth,
                            creditBalance |-> @.creditBalance + wr.credits]]

EventsAfter(q) ==
    LET ins == IF q.evInsert = NoEvInsert THEN usageEvent
               ELSE usageEvent @@ (q.evInsert[1].id :> q.evInsert[1].row)
    IN IF q.evCancel
       THEN [ins EXCEPT ![q.eventId].status = "CANCELLED"]
       ELSE ins

\* (mutant) the decrement is applied outside the transaction and survives.
RolledBackBalance_Leak(q) == BalanceAfter(q)

\* ROLLBACK: the write set is discarded; the committed rows stay as they are.
RolledBackBalance(q) == userBalance
RolledBackEvents(q) == usageEvent

\* The request q once its handler has answered with status st and body bd.
Finished(q, st, bd) ==
    [q EXCEPT !.pc = "done", !.status = st, !.body = bd,
              !.feeToDeduct = Null, !.creditsCost = Null, !.feeModel = Null,
              !.balWrite = NoBalWrite, !.evInsert = NoEvInsert,
              !.evCancel = FALSE, !.refunded = FALSE,
              !.delBalances = {}, !.delEvents = {}, !.delAgent = FALSE]

\* Request q arrives and its first statement leaves it as q2.
Arrive(q2) ==
    /\ IF q2.pc = "done"
       THEN answered' = answered (+) SetToBag({q2}) /\ UNCHANGED inflight
       ELSE inflight' = inflight (+) SetToBag({q2}) /\ UNCHANGED answered

\* The running request q takes a step that leaves it as q2.
Step(q, q2) ==
    IF q2.pc = "done"
    THEN /\ inflight' = inflight (-) SetToBag({q})
         /\ answered' = answered (+) SetToBag({q2})
    ELSE /\ inflight' = (inflight (-) SetToBag({q})) (+) SetToBag({q2})
         /\ UNCHANGED answered

Init ==
    /\ agent \in AgentConfigs
    /\ userBalance = <<>>
    /\ usageEvent = <<>>
    /\ topUpTransaction = <<>>
    /\ inflight = EmptyBag
    /\ answered = EmptyBag
    /\ nextId = 1
    /\ chat = ChatIdle
    /\ call = NoCall
    /\ poll = NoPoll

(* ------------------------- POST /api/track ----------------------------- *)
\* (mutant) the key is not looked up: no row is ever found.
EventsWithKey_None(a, k) == {}

\* usageEvent.findUnique on the (agentId, idempotencyKey) unique index.
EventsWithKey(a, k) ==
    {e \in DOMAIN usageEvent :
        usageEvent[e].agentId = a /\ usageEvent[e].idempotencyKey = k}

\* (mutant) the count does not filter on status.
UsageCount_AnyStatus(a, w) ==
    Cardinality({e \in DOMAIN usageEvent :
                    /\ usageEvent[e].agentId = a
                    /\ usageEvent[e].userWalletAddress = w})

\* usageEvent.count({agentId, userWalletAddress, status: "CAPTURED"})
UsageCount(a, w) ==
    Cardinality({e \in DOMAIN usageEvent :
                    /\ usageEvent[e].agentId = a
                    /\ usageEvent[e].userWalletAddress = w
                    /\ usageEvent[e].status = "CAPTURED"})

\* (mutant) the fee is charged only after the count has passed the threshold.
FreeTierFee_Past(cfg, usageCount) ==
    IF usageCount > cfg.threshold THEN Some(cfg.rate) ELSE Null

\* Free tier: the fee is charged once the captured count reaches the threshold.
FreeTierFee(cfg, usageCount) ==
    IF usageCount >= cfg.threshold THEN Some(cfg.rate) ELSE Null

\* Credit based: creditsToDeduct ?? config.creditsPerPrompt
CreditsCost(cfg, creditsToDeduct) ==
    IF IsNull(creditsToDeduct) THEN cfg.creditsPerPrompt ELSE Val(creditsToDeduct)

\* The body of the replayed (idempotent) response: the callback returns
\* { eventId: existingEvent.id }, which becomes data.eventId.
ReplayBody(id) == JsonObject(id)

\* The request arrives; the transaction starts with agent.findUnique and
\* usageEvent.findUnique (Promise.all).
TrackReceived(q) ==
    /\ LET a == q.agentId
           k == q.idempotencyKey
           existing == IF IsNull(k) THEN {} ELSE EventsWithKey(a, k)
       IN Arrive(IF a \notin DOMAIN agent THEN Finished(q, 404, NoBody)
                 ELSE IF existing # {}
                      THEN Finished(q, 200, ReplayBody(CHOOSE e \in existing : TRUE))
                 ELSE IF agent[a].feeModelType = FREE_TIER
                      THEN [q EXCEPT !.pc = "count", !.feeModel = Some(agent[a])]
                      ELSE [q EXCEPT !.pc = "decCredits",
                                     !.feeModel = Some(agent[a])])
    /\ UNCHANGED <<agent, userBalance, usageEvent, topUpTransaction, nextId>>

\* A track request with the given body arrives.
TrackRead(a, w, k, c) ==
    TrackReceived([NewReq("track", "read") EXCEPT
                     !.agentId = a, !.walletAddress = w,
                     !.idempotencyKey = k, !.creditsToDeduct = c])

TrackCount(q) ==
    /\ q.kind = "track" /\ q.pc = "count"
    /\ LET fee == FreeTierFee(Val(q.feeModel), UsageCount(q.agentId, q.walletAddress))
       IN Step(q, [q EXCEPT !.feeToDeduct = fee,
                            !.pc = IF IsNull(fee) THEN "create" ELSE "decEth"])
    /\ UNCHANGED <<agent, userBalance, usageEvent, topUpTransaction, nextId>>

\* where {userWalletAddress_agentId, ethBalance: {gte: feeToDeduct}}
SufficientEth(w, a, fee) ==
    HasBalance(w, a) /\ userBalance[<<w, a>>].ethBalance >= fee

\* (mutant) the gte filter on creditBalance is missing.
SufficientCredits_NoFilter(w, a, cost) == HasBalance(w, a)

\* where {userWalletAddress_agentId, creditBalance: {gte: creditsCost}}
SufficientCredits(w, a, cost) ==
    HasBalance(w, a) /\ userBalance[<<w, a>>].creditBalance >= cost

\* userBalance.update where {wallet_agent, ethBalance: {gte: fee}}
\* data {ethBalance: {decrement: fee}}; P2025 -> 402 and rollback.
TrackDecEth(q) ==
    /\ q.kind = "track" /\ q.pc = "decEth"
    /\ LET key == <<q.walletAddress, q.agentId>>
           fee == Val(q.feeToDeduct)
       IN /\ ~BalLocked(key[1], key[2])
          /\ IF SufficientEth(key[1], key[2], fee)
             THEN /\ Step(q, [q EXCEPT
                        !.balWrite = Some([key |-> key, eth |-> 0 - fee, credits |-> 0]),
                        !.pc = "create"])
                  /\ UNCHANGED <<userBalance, usageEvent>>
             ELSE /\ Step(q, Finished(q, 402, NoBody))
                  /\ userBalance' = RolledBackBalance(q)
                  /\ usageEvent' = RolledBackEvents(q)
    /\ UNCHANGED <<agent, topUpTransaction, nextId>>

\* userBalance.update where {wallet_agent, creditBalance: {gte: creditsCost}}
\* data {creditBalance: {decrement: creditsCost}}; P2025 -> 402 and rollback.
TrackDecCredits(q) ==
    /\ q.kind = "track" /\ q.pc = "decCredits"
    /\ LET key == <<q.walletAddress, q.agentId>>
           cost == CreditsCost(Val(q.feeModel), q.creditsToDeduct)
       IN /\ ~BalLocked(key[1], key[2])
          /\ IF SufficientCredits(key[1], key[2], cost)
             THEN /\ Step(q, [q EXCEPT
                        !.creditsCost = Some(cost),
                        !.balWrite = Some([key |-> key, eth |-> 0, credits |-> 0 - cost]),
                        !.pc = "create"])
                  /\ UNCHANGED <<userBalance, usageEvent>>
             ELSE /\ Step(q, Finished(q, 402, NoBody))
                  /\ userBalance' = RolledBackBalance(q)
                  /\ usageEvent' = RolledBackEvents(q)
    /\ UNCHANGED <<agent, topUpTransaction, nextId>>

\* The row usageEvent.create inserts.
NewEventRow(q) ==
    [status |-> "PENDING",
     feeDeducted |-> q.feeToDeduct,
     creditsDeducted |-> q.creditsCost,
     idempotencyKey |-> q.idempotencyKey,
     agentId |-> q.agentId,
     userWalletAddress |-> q.walletAddress]

\* UserBalance_agentId_fkey / UsageEvent_agentId_fkey: the referenced Agent
\* row exists.
ForeignKeyHolds(a) == a \in DOMAIN agent

\* usageEvent.create; a row with the same (agentId, idempotencyKey) raises
\* P2002 -> 409 and rollback; a missing Agent row raises P2003, an error
\* with no numeric cause -> 400 and rollback.
TrackCreate(q) ==
    /\ q.kind = "track" /\ q.pc = "create"
    /\ LET a == q.agentId
           k == q.idempotencyKey
       IN /\ IsNull(k) \/ ~KeyInsertPending(a, k)
          /\ ~AgentLocked(a)
          /\ IF ~IsNull(k) /\ EventsWithKey(a, k) # {}
             THEN /\ Step(q, Finished(q, 409, NoBody))
                  /\ userBalance' = RolledBackBalance(q)
                  /\ usageEvent' = RolledBackEvents(q)
                  /\ UNCHANGED nextId
             ELSE IF ~ForeignKeyHolds(a)
             THEN /\ Step(q, Finished(q, 400, NoBody))
                  /\ userBalance' = RolledBackBalance(q)
                  /\ usageEvent' = RolledBackEvents(q)
                  /\ UNCHANGED nextId
             ELSE /\ Step(q, [q EXCEPT
                        !.evInsert = Some([id |-> nextId, row |-> NewEventRow(q)]),
                        !.pc = "commit"])
                  /\ nextId' = nextId + 1
                  /\ UNCHANGED <<userBalance, usageEvent>>
    /\ UNCHANGED <<agent, topUpTransaction>>

\* The callback returns newEvent.id and the transaction commits.
TrackCommit(q) ==
    /\ q.kind = "track" /\ q.pc = "commit"
    /\ userBalance' = BalanceAfter(q)
    /\ usageEvent' = EventsAfter(q)
    /\ Step(q, Finished(q, 200, JsonString(q.evInsert[1].id)))
    /\ UNCHANGED <<agent, topUpTransaction, nextId>>

(* ------------------------ POST /api/capture ---------------------------- *)
\* (mutant) the status filter is missing from the where clause.
CaptureMatches_AnyStatus(e) == {x \in DOMAIN usageEvent : x = e}

\* usageEvent.update where {id, status: "PENDING"} data {status: "CAPTURED"}:
\* the set of rows the WHERE matches.
CaptureMatches(e) ==
    {x \in DOMAIN usageEvent : x = e /\ usageEvent[x].status = "PENDING"}

\* (mutant) the update also clears the recorded deductions.
CaptureData_ClearsDeductions(row) ==
    [row EXCEPT !.status = "CAPTURED", !.feeDeducted = Null, !.creditsDeducted = Null]

\* data {status: "CAPTURED"}: the row as the update leaves it.
CaptureData(row) == [row EXCEPT !.status = "CAPTURED"]

\* One auto-committed statement; P2025 (no row matched) -> 404.
Capture(e) ==
    /\ ~EvLocked(e)
    /\ LET q == [NewReq("capture", "update") EXCEPT !.eventId = e]
       IN IF CaptureMatches(e) # {}
          THEN /\ usageEvent' = [usageEvent EXCEPT ![e] = CaptureData(@)]
               /\ Arrive(Finished(q, 200, JsonString(e)))
          ELSE /\ UNCHANGED usageEvent
               /\ Arrive(Finished(q, 404, NoBody))
    /\ UNCHANGED <<agent, userBalance, topUpTransaction, nextId>>

(* ------------------------ POST /api/release ---------------------------- *)
\* usageEvent.findUnique where {id, status: "PENDING"}
ReleaseFindMatches(e) ==
    {x \in DOMAIN usageEvent : x = e /\ usageEvent[x].status = "PENDING"}

\* feeDeducted?.gt(0) || (creditsDeducted && creditsDeducted > BigInt(0))
ShouldRefund(feeDeducted, creditsDeducted) ==
    \/ (~IsNull(feeDeducted) /\ Val(feeDeducted) > 0)
    \/ (~IsNull(creditsDeducted) /\ Val(creditsDeducted) > 0)

\* (mutant) the refund is computed from the agent's current price instead of
\* the amounts recorded on the event.
RefundWrite_FromConfig(w, a, feeDeducted, creditsDeducted) ==
    [key |-> <<w, a>>,
     eth |-> IF IsNull(feeDeducted) THEN 0 ELSE agent[a].rate,
     credits |-> IF IsNull(creditsDeducted) THEN 0 ELSE agent[a].creditsPerPrompt]

\* The increments of the refund statement: ethBalance by feeDeducted when it
\* is not null, creditBalance by creditsDeducted when it is not null (or 0n).
RefundWrite(w, a, feeDeducted, creditsDeducted) ==
    [key |-> <<w, a>>,
     eth |-> IF IsNull(feeDeducted) THEN 0 ELSE Val(feeDeducted),
     credits |-> IF IsNull(creditsDeducted) THEN 0 ELSE Val(creditsDeducted)]

\* The request arrives; the transaction starts by looking the PENDING event
\* up; not found -> 404.
ReleaseFind(e) ==
    /\ LET q == [NewReq("release", "find") EXCEPT !.eventId = e]
       IN Arrive(IF ReleaseFindMatches(e) = {} THEN Finished(q, 404, NoBody)
                 ELSE [q EXCEPT
                    !.pc = "parallel",
                    !.feeToDeduct = usageEvent[e].feeDeducted,
                    !.creditsCost = usageEvent[e].creditsDeducted,
                    !.walletAddress = usageEvent[e].userWalletAddress,
                    !.agentId = usageEvent[e].agentId,
                    !.refunded = ~ShouldRefund(usageEvent[e].feeDeducted,
                                               usageEvent[e].creditsDeducted)])
    /\ UNCHANGED <<agent, userBalance, usageEvent, topUpTransaction, nextId>>

\* Promise.all, first member: userBalance.update where {wallet_agent}
\* data {increment}; P2025 (no row) -> 404 and rollback.
ReleaseRefund(q) ==
    /\ q.kind = "release" /\ q.pc = "parallel" /\ ~q.refunded
    /\ LET w == q.walletAddress
           a == q.agentId
       IN /\ ~BalLocked(w, a)
          /\ IF HasBalance(w, a)
             THEN /\ Step(q, [q EXCEPT
                        !.balWrite = Some(RefundWrite(w, a, q.feeToDeduct, q.creditsCost)),
                        !.refunded = TRUE])
                  /\ UNCHANGED <<userBalance, usageEvent>>
             ELSE /\ Step(q, Finished(q, 404, NoBody))
                  /\ userBalance' = RolledBackBalance(q)
                  /\ usageEvent' = RolledBackEvents(q)
    /\ UNCHANGED <<agent, topUpTransaction, nextId>>

\* usageEvent.update where {id} data {status: "CANCELLED"}: the rows matched.
ReleaseCancelMatches(e) == {x \in DOMAIN usageEvent : x = e}

\* Promise.all, second member; P2025 (no row) -> 404 and rollback.
ReleaseCancel(q) ==
    /\ q.kind = "release" /\ q.pc = "parallel" /\ ~q.evCancel
    /\ ~EvLocked(q.eventId)
    /\ IF ReleaseCancelMatches(q.eventId) # {}
       THEN /\ Step(q, [q EXCEPT !.evCancel = TRUE])
            /\ UNCHANGED <<userBalance, usageEvent>>
       ELSE /\ Step(q, Finished(q, 404, NoBody))
            /\ userBalance' = RolledBackBalance(q)
            /\ usageEvent' = RolledBackEvents(q)
    /\ UNCHANGED <<agent, topUpTransaction, nextId>>

\* Both statements settled: the callback returns and the transaction commits.
ReleaseCommit(q) ==
    /\ q.kind = "release" /\ q.pc = "parallel"
    /\ q.refunded /\ q.evCancel
    /\ userBalance' = BalanceAfter(q)
    /\ usageEvent' = EventsAfter(q)
    /\ Step(q, Finished(q, 200, JsonString(q.eventId)))
    /\ UNCHANGED <<agent, topUpTransaction, nextId>>

(* ---------------------------- error mapping --------------------------- *)
\* Errors a handler's catch block sees, by type: a ZodError ("zod"), a
\* PrismaClientKnownRequestError with its code ("prisma"), an Error thrown
\* by the handler with a numeric cause ("error"), a thrown value that is no
\* Error ("other").
PrismaError(code) == [type |-> "prisma", code |-> code, cause |-> 0]

\* Failures of the store itself: the database cannot be reached (P1001), the
\* transaction was aborted by a deadlock or write conflict (P2034).
StoreErrors == {PrismaError("P1001"), PrismaError("P2034")}

\* error instanceof Error ? (typeof error.cause === "number" ? cause : 400)
\* : 500 -- the last two branches of the track and release catch blocks.
FallbackStatus(error) ==
    IF error.type = "other" THEN 500
    ELSE IF error.type = "error" THEN error.cause
    ELSE 400

\* The status each handler's catch block answers an error with.
ErrorStatus(kind, error) ==
    IF kind = "track"
    THEN IF error.type = "zod" THEN 400
         ELSE IF error.type = "prisma" /\ error.code = "P2002" THEN 409
         ELSE FallbackStatus(error)
    ELSE IF kind = "release"
    THEN IF error.type = "prisma" /\ error.code = "P2025" THEN 404
         ELSE IF error.type = "zod" THEN 400
         ELSE FallbackStatus(error)
    ELSE IF error.type = "prisma" /\ error.code = "P2025" THEN 404
         ELSE 500

\* A statement of the running track or release q fails with a store error:
\* the transaction rolls back and the catch block answers.
StoreFails(q, error) ==
    /\ q.kind \in {"track", "release"}
    /\ Step(q, Finished([q EXCEPT !.fault = TRUE], ErrorStatus(q.kind, error), NoBody))
    /\ userBalance' = RolledBackBalance(q)
    /\ usageEvent' = RolledBackEvents(q)
    /\ UNCHANGED <<agent, topUpTransaction, nextId>>

(* --------------------------- lock waits -------------------------------- *)
\* The running transactions whose locks the one remaining statement of the
\* release q, or the next statement of the agent delete q, waits for.
WaitsFor(q) ==
    IF q.kind = "release" /\ q.pc = "parallel"
    THEN {s \in Running :
            \/ /\ ~q.refunded /\ q.evCancel
               /\ \/ /\ s.balWrite # NoBalWrite
                     /\ s.balWrite[1].key = <<q.walletAddress, q.agentId>>
                  \/ <<q.walletAddress, q.agentId>> \in s.delBalances
            \/ /\ ~q.evCancel /\ q.refunded
               /\ (s.evCancel /\ s.eventId = q.eventId) \/ q.eventId \in s.delEvents}
    ELSE IF q.kind = "delete" /\ q.pc = "delEvents"
    THEN {s \in Running :
            /\ s.evCancel /\ s.eventId \in DOMAIN usageEvent
            /\ usageEvent[s.eventId].agentId = q.agentId}
    ELSE {}

\* PostgreSQL's deadlock detector: q and s wait for each other.
Deadlocked(q) == \E s \in WaitsFor(q) : q \in WaitsFor(s)

\* The detector aborts one member of the cycle; its statement fails with an
\* error that is neither P2025 nor carries a numeric cause -> 400, rollback
\* (the agent delete handler answers any such error with 500).
DeadlockAbort(q) ==
    /\ Deadlocked(q)
    /\ Step(q, Finished([q EXCEPT !.fault = TRUE],
                        ErrorStatus(q.kind, PrismaError("P2034")), NoBody))
    /\ userBalance' = RolledBackBalance(q)
    /\ usageEvent' = RolledBackEvents(q)
    /\ UNCHANGED <<agent, topUpTransaction, nextId>>

(* ---------------------- DELETE /api/agents/[agentId] ------------------- *)
\* The rows of the two ledger tables that reference agent a.
BalancesOfAgent(a) == {key \in DOMAIN userBalance : key[2] = a}
EventsOfAgent(a) == {e \in DOMAIN usageEvent : usageEvent[e].agentId = a}

\* A running transaction inserted a row referencing agent a: the foreign-key
\* check holds a key-share lock on the Agent row until it ends.
AgentKeyShared(a) ==
    \E s \in Running : s.evInsert # NoEvInsert /\ s.evInsert[1].row.agentId = a

\* The request arrives; agent.findUnique (outside the transaction); no row
\* -> 404.
DeleteFind(a) ==
    /\ LET q == [NewReq("delete", "find") EXCEPT !.agentId = a]
       IN Arrive(IF a \notin DOMAIN agent THEN Finished(q, 404, NoBody)
                 ELSE [q EXCEPT !.pc = "delBalances"])
    /\ UNCHANGED <<agent, userBalance, usageEvent, topUpTransaction, nextId>>

\* tx.userBalance.deleteMany where {agentId}: the committed rows, once none
\* of them is locked.
DeleteBalances(q) ==
    /\ q.kind = "delete" /\ q.pc = "delBalances"
    /\ \A key \in BalancesOfAgent(q.agentId) : ~BalLocked(key[1], key[2])
    /\ Step(q, [q EXCEPT !.delBalances = BalancesOfAgent(q.agentId),
                         !.pc = "delEvents"])
    /\ UNCHANGED <<agent, userBalance, usageEvent, topUpTransaction, nextId>>

\* tx.usageEvent.deleteMany where {agentId}
DeleteEvents(q) ==
    /\ q.kind = "delete" /\ q.pc = "delEvents"
    /\ \A e \in EventsOfAgent(q.agentId) : ~EvLocked(e)
    /\ Step(q, [q EXCEPT !.delEvents = EventsOfAgent(q.agentId),
                         !.pc = "delAgent"])
    /\ UNCHANGED <<agent, userBalance, usageEvent, topUpTransaction, nextId>>

\* (mutant) the delete is not refused while rows still reference the agent.
StillReferenced_Never(q) == FALSE

\* ON DELETE RESTRICT: rows committed since the two deleteMany statements
\* still reference the agent.
StillReferenced(q) ==
    \/ BalancesOfAgent(q.agentId) \ q.delBalances # {}
    \/ EventsOfAgent(q.agentId) \ q.delEvents # {}

\* tx.agent.delete where {id}: no row -> P2025 -> 404; a referencing row
\* -> foreign-key violation -> 500; either way the transaction rolls back.
DeleteAgentRow(q) ==
    /\ q.kind = "delete" /\ q.pc = "delAgent"
    /\ ~AgentLocked(q.agentId) /\ ~AgentKeyShared(q.agentId)
    /\ Step(q, IF q.agentId \notin DOMAIN agent THEN Finished(q, 404, NoBody)
               ELSE IF StillReferenced(q) THEN Finished(q, 500, NoBody)
               ELSE [q EXCEPT !.delAgent = TRUE, !.pc = "commit"])
    /\ UNCHANGED <<agent, userBalance, usageEvent, topUpTransaction, nextId>>

\* The callback returns the deleted agent and the transaction commits.
DeleteCommit(q) ==
    /\ q.kind = "delete" /\ q.pc = "commit"
    /\ userBalance' = [key \in DOMAIN userBalance \ q.delBalances |-> userBalance[key]]
    /\ usageEvent' = [e \in DOMAIN usageEvent \ q.delEvents |-> usageEvent[e]]
    /\ agent' = [a \in DOMAIN agent \ {q.agentId} |-> agent[a]]
    /\ Step(q, Finished(q, 200, NoBody))
    /\ UNCHANGED <<topUpTransaction, nextId>>

(* ----------------- POST /api/top-up-details and worker ----------------- *)
\* topUpTransaction.create with status PENDING (txHash is the primary key).
SubmitTopUp(w, a, amt, c) ==
    /\ Cardinality(DOMAIN topUpTransaction) < Len(TxHashSeq)
    /\ LET h == TxHashSeq[Cardinality(DOMAIN topUpTransaction) + 1]
       IN topUpTransaction' = topUpTransaction @@
            (h :> [status |-> "PENDING", userWalletAddress |-> w, agentId |-> a,
                   amountInEth |-> amt, creditsToTopUp |-> c,
                   errorMessage |-> Null])
    /\ UNCHANGED <<agent, userBalance, usageEvent, inflight, answered, nextId>>

\* (mutant) the update branch of the upsert sets the balance instead of
\* incrementing it.
UpsertBalance_Set(w, a, feeModelType, amountInEth, creditsToTopUp) ==
    LET eth == IF feeModelType = FREE_TIER THEN Val(DecimalOf(amountInEth)) ELSE 0
        credits == IF feeModelType = CREDIT_BASED /\ ~IsNull(creditsToTopUp)
                   THEN Val(creditsToTopUp) ELSE 0
    IN IF HasBalance(w, a)
       THEN [userBalance EXCEPT
               ![<<w, a>>] = [ethBalance |-> eth, creditBalance |-> credits]]
       ELSE userBalance @@
               (<<w, a>> :> [ethBalance |-> eth, creditBalance |-> credits])

\* userBalance.upsert of the confirmation transaction.
UpsertBalance(w, a, feeModelType, amountInEth, creditsToTopUp) ==
    LET eth == IF feeModelType = FREE_TIER THEN Val(DecimalOf(amountInEth)) ELSE 0
        credits == IF feeModelType = CREDIT_BASED /\ ~IsNull(creditsToTopUp)
                   THEN Val(creditsToTopUp) ELSE 0
    IN IF HasBalance(w, a)
       THEN [userBalance EXCEPT
               ![<<w, a>>] = [ethBalance |-> @.ethBalance + eth,
                              creditBalance |-> @.creditBalance + credits]]
       ELSE userBalance @@
               (<<w, a>> :> [ethBalance |-> eth, creditBalance |-> credits])

\* simulateTransactionConfirmation: the PENDING record and its agent are
\* read, then one transaction credits the balance and marks the record
\* CONFIRMED; a failure (agent missing, amount not a decimal) marks it FAILED.
ConfirmTopUp(h) ==
    /\ h \in DOMAIN topUpTransaction
    /\ topUpTransaction[h].status = "PENDING"
    /\ LET t == topUpTransaction[h]
       IN IF /\ t.agentId \in DOMAIN agent
             /\ (agent[t.agentId].feeModelType = FREE_TIER
                    => ~IsNull(DecimalOf(t.amountInEth)))
          THEN /\ ~BalLocked(t.userWalletAddress, t.agentId)
               /\ ~AgentLocked(t.agentId)
               /\ userBalance' = UpsertBalance(t.userWalletAddress, t.agentId,
                                     agent[t.agentId].feeModelType,
                                     t.amountInEth, t.creditsToTopUp)
               /\ topUpTransaction' = [topUpTransaction EXCEPT ![h].status = "CONFIRMED"]
          ELSE /\ topUpTransaction' = [topUpTransaction EXCEPT
                                         ![h].status = "FAILED",
                                         ![h].errorMessage = Some("{}")]
               /\ UNCHANGED userBalance
    /\ UNCHANGED <<agent, usageEvent, inflight, answered, nextId>>

(* ---------------------------- specification ---------------------------- *)
EventChoices == DOMAIN usageEvent \cup {NoSuchEvent}

\* Request bodies that differ only in a field the handler never reads are
\* represented once: creditsToDeduct is read for a CREDIT_BASED agent only,
\* and nothing but agentId is read when the agent does not exist;
\* creditsToTopUp is read for a CREDIT_BASED agent only.
TrackInputs(a, k, c) ==
    /\ (c # Null => a \in DOMAIN agent /\ agent[a].feeModelType = CREDIT_BASED)
    /\ (k # Null => a \in DOMAIN agent)
TopUpInputs(a, c) ==
    c # Null => a \in DOMAIN agent /\ agent[a].feeModelType = CREDIT_BASED

\* Requests and top-up submissions so far.
NumOps == NumReqs + Cardinality(DOMAIN topUpTransaction)

Next ==
    \/ \E a \in AgentIds \cup {UnknownAgent}, w \in Wallets,
          k \in {Null} \cup {Some(x) : x \in Keys}, c \in CreditsToDeductChoices :
          NumReqs < MaxReqs /\ NumOps < MaxOps /\ TrackInputs(a, k, c) /\ TrackRead(a, w, k, c) /\ UNCHANGED clientVars
    \/ \E q \in Running : TrackCount(q) /\ UNCHANGED clientVars
    \/ \E q \in Running : TrackDecEth(q) /\ UNCHANGED clientVars
    \/ \E q \in Running : TrackDecCredits(q) /\ UNCHANGED clientVars
    \/ \E q \in Running : TrackCreate(q) /\ UNCHANGED clientVars
    \/ \E q \in Running : TrackCommit(q) /\ UNCHANGED clientVars
    \/ \E e \in EventChoices : NumReqs < MaxReqs /\ NumOps < MaxOps /\ Capture(e) /\ UNCHANGED clientVars
    \/ \E e \in EventChoices : NumReqs < MaxReqs /\ NumOps < MaxOps /\ ReleaseFind(e) /\ UNCHANGED clientVars
    \/ \E q \in Running : ReleaseRefund(q) /\ UNCHANGED clientVars
    \/ \E q \in Running : ReleaseCancel(q) /\ UNCHANGED clientVars
    \/ \E q \in Running : ReleaseCommit(q) /\ UNCHANGED clientVars
    \/ \E q \in Running : DeadlockAbort(q) /\ UNCHANGED clientVars
    \/ \E w \in Wallets, a \in AgentIds \cup {UnknownAgent},
          amt \in AmountInEthChoices, c \in CreditsToTopUpChoices :
          /\ Cardinality(DOMAIN topUpTransaction) < MaxTopUps /\ NumOps < MaxOps
          /\ TopUpInputs(a, c) /\ SubmitTopUp(w, a, amt, c) /\ UNCHANGED clientVars
    \/ \E h \in DOMAIN topUpTransaction : ConfirmTopUp(h) /\ UNCHANGED clientVars

Spec == Init /\ [][Next]_vars

\* The track and capture operations alone, with top-ups: no release.
NextTrack ==
    \/ \E a \in AgentIds \cup {UnknownAgent}, w \in Wallets,
          k \in {Null} \cup {Some(x) : x \in Keys}, c \in CreditsToDeductChoices :
          NumReqs < MaxReqs /\ NumOps < MaxOps /\ TrackInputs(a, k, c) /\ TrackRead(a, w, k, c) /\ UNCHANGED clientVars
    \/ \E q \in Running : TrackCount(q) /\ UNCHANGED clientVars
    \/ \E q \in Running : TrackDecEth(q) /\ UNCHANGED clientVars
    \/ \E q \in Running : TrackDecCredits(q) /\ UNCHANGED clientVars
    \/ \E q \in Running : TrackCreate(q) /\ UNCHANGED clientVars
    \/ \E q \in Running : TrackCommit(q) /\ UNCHANGED clientVars
    \/ \E e \in EventChoices : NumReqs < MaxReqs /\ NumOps < MaxOps /\ Capture(e) /\ UNCHANGED clientVars
    \/ \E w \in Wallets, a \in AgentIds \cup {UnknownAgent},
          amt \in AmountInEthChoices, c \in CreditsToTopUpChoices :
          /\ Cardinality(DOMAIN topUpTransaction) < MaxTopUps /\ NumOps < MaxOps
          /\ TopUpInputs(a, c) /\ SubmitTopUp(w, a, amt, c) /\ UNCHANGED clientVars
    \/ \E h \in DOMAIN topUpTransaction : ConfirmTopUp(h) /\ UNCHANGED clientVars

SpecTrack == Init /\ [][NextTrack]_vars

(* ------------------------- ledger accounting --------------------------- *)
RECURSIVE SumOver(_, _)
\* Sum of f[x] over the finite set S.
SumOver(f, S) ==
    IF S = {} THEN 0
    ELSE LET x == CHOOSE y \in S : TRUE IN f[x] + SumOver(f, S \ {x})

EventsOf(w, a) ==
    {e \in DOMAIN usageEvent :
        usageEvent[e].userWalletAddress = w /\ usageEvent[e].agentId = a}

FeeOf(e) == IF IsNull(usageEvent[e].feeDeducted) THEN 0 ELSE Val(usageEvent[e].feeDeducted)
CreditsOf(e) ==
    IF IsNull(usageEvent[e].creditsDeducted) THEN 0 ELSE Val(usageEvent[e].creditsDeducted)

ConfirmedTopUps(w, a) ==
    {h \in DOMAIN topUpTransaction :
        /\ topUpTransaction[h].status = "CONFIRMED"
        /\ topUpTransaction[h].userWalletAddress = w
        /\ topUpTransaction[h].agentId = a}

EthCredited(w, a) ==
    IF a \in DOMAIN agent /\ agent[a].feeModelType = FREE_TIER
    THEN SumOver([h \in DOMAIN topUpTransaction |->
                    Val(DecimalOf(topUpTransaction[h].amountInEth))],
                 ConfirmedTopUps(w, a))
    ELSE 0

CreditsCredited(w, a) ==
    IF a \in DOMAIN agent /\ agent[a].feeModelType = CREDIT_BASED
    THEN SumOver([h \in DOMAIN topUpTransaction |->
                    IF IsNull(topUpTransaction[h].creditsToTopUp) THEN 0
                    ELSE Val(topUpTransaction[h].creditsToTopUp)],
                 ConfirmedTopUps(w, a))
    ELSE 0

\* GET /api/balance: the row's values, zero when there is no row.
EthBalanceOf(w, a) == IF HasBalance(w, a) THEN userBalance[<<w, a>>].ethBalance ELSE 0
CreditBalanceOf(w, a) == IF HasBalance(w, a) THEN userBalance[<<w, a>>].creditBalance ELSE 0

\* The answered track requests for (agentId, idempotencyKey).
DoneTracks(a, k) ==
    {q \in Answers : q.kind = "track" /\ q.agentId = a /\ q.idempotencyKey = k}

(* ------------------------ the requests of a step ----------------------- *)
\* This step receives a request.
Arrived ==
    BagCardinality(inflight') + BagCardinality(answered') = NumReqs + 1
\* The requests answered by this step, as they are after it.
AnsweredNow ==
    {q \in BagToSet(answered') : CopiesIn(q, answered') > CopiesIn(q, answered)}
\* The requests left running by this step in a new position.
MovedNow ==
    {q \in BagToSet(inflight') : CopiesIn(q, inflight') > CopiesIn(q, inflight)}
\* The running requests this step executes a statement of, as they were.
Acting ==
    {q \in Running : CopiesIn(q, inflight') < CopiesIn(q, inflight)}
\* The request this step receives, after the first statement of its handler.
ArrivedNow == IF Arrived THEN AnsweredNow \cup MovedNow ELSE {}

(* ------------------------------- claims -------------------------------- *)

\* C1: track requests sharing one (agentId, idempotencyKey), in any
\* interleaving of their statements, leave at most one UsageEvent row for the
\* pair, exactly one as soon as one of them was answered 200, and every
\* deduction taken from a balance is recorded on exactly one UsageEvent row:
\* balance + recorded deductions = confirmed top-ups, so the request that
\* loses the uniqueness race leaves no deduction behind.
C1_NoDoubleCharge ==
    /\ \A a \in AgentIds, k \in Keys :
          /\ Cardinality(EventsWithKey(a, Some(k))) <= 1
          /\ (\E q \in DoneTracks(a, Some(k)) : q.status = 200)
                => Cardinality(EventsWithKey(a, Some(k))) = 1
    /\ \A w \in Wallets, a \in AgentIds :
          /\ EthBalanceOf(w, a) + SumOver([e \in DOMAIN usageEvent |-> FeeOf(e)],
                                          EventsOf(w, a)) = EthCredited(w, a)
          /\ CreditBalanceOf(w, a)
                + SumOver([e \in DOMAIN usageEvent |-> CreditsOf(e)], EventsOf(w, a))
                = CreditsCredited(w, a)

\* Two tracks with the same key raced on a charged agent: one created the
\* row and took the deduction, the other lost the uniqueness race.
C1_Witness ==
    \E q1, q2 \in Answers :
       /\ q1.kind = "track" /\ q2.kind = "track"
       /\ q1.agentId = q2.agentId
       /\ q1.idempotencyKey = q2.idempotencyKey
       /\ q1.idempotencyKey # Null
       /\ q1.status = 200 /\ q2.status = 409
       /\ \E e \in EventsWithKey(q1.agentId, q1.idempotencyKey) :
             CreditsOf(e) > 0

\* The charge a track request is about to take at its decrement statement.
ChargeAt(q) ==
    IF q.pc = "decEth" THEN Val(q.feeToDeduct)
    ELSE CreditsCost(Val(q.feeModel), q.creditsToDeduct)
BalanceAt(q) ==
    IF q.pc = "decEth"
    THEN EthBalanceOf(q.walletAddress, q.agentId)
    ELSE CreditBalanceOf(q.walletAddress, q.agentId)

BalancesNonNegative ==
    \A key \in DOMAIN userBalance :
        userBalance[key].ethBalance >= 0 /\ userBalance[key].creditBalance >= 0

\* A track request at its decrement statement whose charge exceeds the
\* committed balance (or whose balance row is missing) is answered 402 by
\* that statement, and the statement changes no balance and no UsageEvent.
InsufficientTrackFails ==
    \A q \in Acting :
        (/\ q.kind = "track" /\ q.pc \in {"decEth", "decCredits"}
         /\ (~HasBalance(q.walletAddress, q.agentId) \/ BalanceAt(q) < ChargeAt(q)))
        => /\ AnsweredNow = {Finished(q, 402, NoBody)}
           /\ UNCHANGED <<userBalance, usageEvent>>

\* C2: under every interleaving of track requests (with captures, releases
\* and top-ups around them) no UserBalance row ever has a negative
\* ethBalance or creditBalance, and a track whose charge exceeds the current
\* balance fails with 402 changing neither balances nor UsageEvents.
C2_NoNegativeBalance ==
    []BalancesNonNegative /\ [][InsufficientTrackFails]_vars

\* A track was refused with 402 while a balance row with less than the
\* charge existed, after another track had taken its charge from that row.
C2_Witness ==
    \E q1, q2 \in Answers :
       /\ q1.kind = "track" /\ q1.status = 402
       /\ q2.kind = "track" /\ q2.status = 200
       /\ q1.agentId = q2.agentId
       /\ HasBalance(q1.walletAddress, q1.agentId)
       /\ \E e \in EventsOf(q1.walletAddress, q1.agentId) :
             FeeOf(e) + CreditsOf(e) > 0

\* The requests of one kind on event e that were answered 200.
Succeeded(kind, e) ==
    {q \in Answers : q.kind = kind /\ q.eventId = e /\ q.status = 200}
\* ... and how many of them there are.
NumSucceeded(kind, e) ==
    SumOver([q \in Answers |-> CopiesIn(q, answered)], Succeeded(kind, e))

\* C3: of one capture and one release running concurrently on a PENDING
\* event at most one reports success: no event has both a capture answered
\* 200 and a release answered 200 (which would leave it CANCELLED and
\* refunded after its capture succeeded).
C3_CaptureReleaseExclusive ==
    \A e \in DOMAIN usageEvent :
        Succeeded("capture", e) = {} \/ Succeeded("release", e) = {}

\* C4: of two concurrent requests on the same PENDING event exactly one
\* succeeds; in particular an event that holds a deduction is released, and
\* so refunded, by at most one release request.
C4_SingleRefund ==
    \A e \in DOMAIN usageEvent :
        ShouldRefund(usageEvent[e].feeDeducted, usageEvent[e].creditsDeducted)
            => NumSucceeded("release", e) <= 1

\* The key of the balance the event's deduction was taken from.
BalanceKeyOf(e) == <<usageEvent[e].userWalletAddress, usageEvent[e].agentId>>

\* The commit of a release of event e adds exactly e's recorded deductions
\* to the balance of e's (wallet, agent), and touches no other balance.
ReleaseRefundsRecorded ==
    \A q \in AnsweredNow :
        (q.kind = "release" /\ q.status = 200)
        => LET e == q.eventId
               key == BalanceKeyOf(e)
           IN /\ usageEvent'[e].status = "CANCELLED"
              /\ IF FeeOf(e) + CreditsOf(e) = 0
                 THEN userBalance' = userBalance
                 ELSE /\ key \in DOMAIN userBalance
                      /\ userBalance' = [userBalance EXCEPT
                            ![key] = [ethBalance |-> @.ethBalance + FeeOf(e),
                                      creditBalance |-> @.creditBalance + CreditsOf(e)]]

\* The commit of a track records on the new PENDING event exactly what it
\* takes from the balance of its (wallet, agent).
TrackRecordsDeducted ==
    \A q \in Acting :
        (q.kind = "track" /\ q.pc = "commit")
        => \E q2 \in AnsweredNow :
             LET e == q2.body.val
                 w == q.walletAddress
                 a == q.agentId
             IN /\ q2.status = 200
                /\ e \notin DOMAIN usageEvent /\ e \in DOMAIN usageEvent'
                /\ usageEvent'[e].status = "PENDING"
                /\ usageEvent'[e].userWalletAddress = w /\ usageEvent'[e].agentId = a
                /\ LET fee == IF IsNull(usageEvent'[e].feeDeducted) THEN 0
                              ELSE Val(usageEvent'[e].feeDeducted)
                       credits == IF IsNull(usageEvent'[e].creditsDeducted) THEN 0
                                  ELSE Val(usageEvent'[e].creditsDeducted)
                   IN IF fee + credits = 0
                      THEN userBalance' = userBalance
                      ELSE /\ <<w, a>> \in DOMAIN userBalance
                           /\ userBalance' = [userBalance EXCEPT
                                 ![<<w, a>>] = [ethBalance |-> @.ethBalance - fee,
                                                creditBalance |-> @.creditBalance - credits]]

\* C5: release gives back exactly what track took: track decrements the
\* balance by the amounts it records on the event, release increments
\* ethBalance by exactly the recorded feeDeducted and creditBalance by exactly
\* the recorded creditsDeducted, so with nothing else in between the balance
\* after release equals the balance before track.
C5_ReleaseRefundsExactly ==
    [][ReleaseRefundsRecorded /\ TrackRecordsDeducted]_vars

\* An event holding a credit deduction was released and the balance is back
\* at what the confirmed top-ups credited (3 -> track 2 -> 1 -> release -> 3).
C5_Witness ==
    \E e \in DOMAIN usageEvent :
       /\ usageEvent[e].status = "CANCELLED" /\ CreditsOf(e) > 0
       /\ NumSucceeded("release", e) = 1
       /\ EventsOf(BalanceKeyOf(e)[1], BalanceKeyOf(e)[2]) = {e}
       /\ CreditBalanceOf(BalanceKeyOf(e)[1], BalanceKeyOf(e)[2])
             = CreditsCredited(BalanceKeyOf(e)[1], BalanceKeyOf(e)[2])

\* C6: a UsageEvent changes status only PENDING -> CAPTURED or
\* PENDING -> CANCELLED; a CAPTURED or CANCELLED event never changes status
\* again and no event is ever EXPIRED.
C6_Lifecycle ==
    [][\A e \in DOMAIN usageEvent :
          /\ usageEvent'[e].status # "EXPIRED"
          /\ usageEvent'[e].status # usageEvent[e].status
                => /\ usageEvent[e].status = "PENDING"
                   /\ usageEvent'[e].status \in {"CAPTURED", "CANCELLED"}]_vars

\* C7: a capture or release request issued when the event is already
\* CAPTURED or CANCELLED, or when no event has that id, is answered 404 and
\* changes neither the event's status nor any balance.
C7_TerminalRejects ==
    [][\A q \in ArrivedNow :
          (/\ q.kind \in {"capture", "release"}
           /\ (q.eventId \in DOMAIN usageEvent
                  => usageEvent[q.eventId].status \in {"CAPTURED", "CANCELLED"}))
          => /\ q.pc = "done" /\ q.status = 404
             /\ UNCHANGED <<usageEvent, userBalance>>]_vars

\* A capture was refused on an event that exists, i.e. that was already
\* terminal when the capture was issued, and the event is still CANCELLED.
C7_Witness ==
    \E q \in Answers :
       /\ q.kind = "capture" /\ q.status = 404
       /\ q.eventId \in DOMAIN usageEvent
       /\ usageEvent[q.eventId].status = "CANCELLED"

\* C8: a track carrying an idempotencyKey for which a UsageEvent exists for
\* (agentId, idempotencyKey) is answered 200 with, as eventId, the id value the
\* original track returned (the id as a string), creates no UsageEvent and
\* changes no balance, whatever the status of the existing event.
C8_ReplayReturnsId ==
    [][\A q \in ArrivedNow :
          (/\ q.kind = "track"
           /\ q.agentId \in DOMAIN agent
           /\ q.idempotencyKey # Null
           /\ EventsWithKey(q.agentId, q.idempotencyKey) # {})
          => /\ q.pc = "done" /\ q.status = 200
             /\ \E e \in EventsWithKey(q.agentId, q.idempotencyKey) :
                   q.body = JsonString(e)
             /\ UNCHANGED <<usageEvent, userBalance>>]_vars

\* The track requests for one (agentId, idempotencyKey) that were answered.
Answered(a, k) == DoneTracks(a, Some(k))

\* C9 (as stated): two track requests with the same idempotencyKey that
\* both got past the balance check are both answered 200 carrying the same
\* event id, and one UsageEvent row exists.
C9_BothSucceed ==
    \A a \in AgentIds, k \in Keys :
        \A q1, q2 \in Answered(a, k) :
            (q1 # q2 /\ q1.status # 402 /\ q2.status # 402)
            => /\ q1.status = 200 /\ q2.status = 200
               /\ q1.body.val = q2.body.val
               /\ Cardinality(EventsWithKey(a, Some(k))) = 1

\* C9 (amended): of the track requests with one idempotencyKey only one
\* creates a UsageEvent row and is answered 200 with its id; a request that
\* loses the uniqueness race is answered 409 (or 402 when the balance no
\* longer covers it), and every 200 answer refers to the id of the one row.
C9_OneRowLoserConflict ==
    \A a \in AgentIds, k \in Keys :
        LET rows == EventsWithKey(a, Some(k))
            created == {q \in Answered(a, k) :
                           q.status = 200 /\ q.body.tag = "string"}
        IN /\ Cardinality(rows) <= 1
           /\ \A q \in Answered(a, k) :
                 /\ q.status \in {200, 402, 409}
                 /\ q.status \in {200, 409} => Cardinality(rows) = 1
                 /\ q.status = 200 => q.body.val \in rows
           /\ SumOver([q \in Answers |-> CopiesIn(q, answered)], created) <= 1

\* Two tracks with the same key raced: one answered 200, the other 409.
C9_Witness ==
    \E a \in AgentIds, k \in Keys :
        \E q1, q2 \in Answered(a, k) :
            /\ q1.status = 200 /\ q1.body.tag = "string"
            /\ q2.status = 409
            /\ EventsWithKey(a, Some(k)) = {q1.body.val}

\* The effect on the committed ledger of the step that leaves track
\* request q as it is after the step.
TrackStepEffect(q) ==
    IF q.pc = "done" /\ q.status = 200 /\ q.body.tag = "string"
    THEN LET e == q.body.val
             key == <<q.walletAddress, q.agentId>>
         IN /\ DOMAIN usageEvent' = DOMAIN usageEvent \cup {e}
            /\ e \notin DOMAIN usageEvent
            /\ \A x \in DOMAIN usageEvent : usageEvent'[x] = usageEvent[x]
            /\ usageEvent'[e].status = "PENDING"
            /\ IF IsNull(usageEvent'[e].feeDeducted)
                  /\ IsNull(usageEvent'[e].creditsDeducted)
               THEN userBalance' = userBalance
               ELSE /\ key \in DOMAIN userBalance
                    /\ userBalance' # userBalance
                    /\ \A x \in DOMAIN userBalance \ {key} :
                          userBalance'[x] = userBalance[x]
    ELSE UNCHANGED <<usageEvent, userBalance>>

\* C10: a track that fails (402, 404, 409) leaves the ledger as it was, no
\* UsageEvent created and no balance decremented; a successful charging
\* track makes the decrement and the PENDING event visible in one step,
\* never one without the other.
C10_TrackAtomic ==
    [][\A q \in AnsweredNow \cup MovedNow :
          q.kind = "track" => TrackStepEffect(q)]_vars

\* Tracks were answered 402, 404 and 409 and a charging track succeeded.
C10_Witness ==
    /\ \E q \in Answers : q.kind = "track" /\ q.status = 409
    /\ \E q \in Answers : q.kind = "track" /\ q.status \in {402, 404}
    /\ \E e \in DOMAIN usageEvent : FeeOf(e) + CreditsOf(e) > 0

\* The CAPTURED events of a wallet for an agent.
CapturedEvents(w, a) == {e \in EventsOf(w, a) : usageEvent[e].status = "CAPTURED"}

\* The decision of a FREE_TIER track: free while fewer than threshold events
\* of the wallet are CAPTURED, else the agent's rate.
FreeTierDecision(w, a) ==
    IF Cardinality(CapturedEvents(w, a)) < agent[a].threshold
    THEN Null ELSE Some(agent[a].rate)

\* The count statement of a FREE_TIER track decides by the CAPTURED events.
FreeTierDecides ==
    \A q \in Acting :
        (q.kind = "track" /\ q.pc = "count")
        => \E q2 \in MovedNow :
              /\ q2 = [q EXCEPT !.pc = q2.pc, !.feeToDeduct = q2.feeToDeduct]
              /\ q2.feeToDeduct = FreeTierDecision(q.walletAddress, q.agentId)

\* The commit of a FREE_TIER track applies its decision: a free track
\* records feeDeducted null and leaves the balances as they are, a charged
\* one records the rate and takes exactly the rate from ethBalance.
FreeTierApplies ==
    \A q \in Acting :
        (q.kind = "track" /\ q.pc = "commit"
            /\ agent[q.agentId].feeModelType = FREE_TIER)
        => \E q2 \in AnsweredNow :
             LET e == q2.body.val
                 key == <<q.walletAddress, q.agentId>>
             IN /\ e \in DOMAIN usageEvent' \ DOMAIN usageEvent
                /\ usageEvent'[e].feeDeducted = q.feeToDeduct
                /\ usageEvent'[e].feeDeducted \in {Null, Some(agent[q.agentId].rate)}
                /\ IF IsNull(q.feeToDeduct)
                   THEN userBalance' = userBalance
                   ELSE /\ key \in DOMAIN userBalance
                        /\ userBalance' = [userBalance EXCEPT
                              ![key].ethBalance = @ - agent[q.agentId].rate]

\* C11: for a FREE_TIER agent with threshold T a track is free (feeDeducted
\* null, balance unchanged) while fewer than T events of the wallet for the
\* agent are CAPTURED and deducts exactly rate from ethBalance otherwise;
\* PENDING and CANCELLED events are not counted.  With every track captured
\* before the next one, the first T tracks are the free ones.
C11_FreeTierThreshold ==
    [][FreeTierDecides /\ FreeTierApplies]_vars

\* Threshold 1: the first track was free and captured, the next one was
\* charged the rate.
C11_Witness ==
    /\ agent["aFree"].threshold = 1
    /\ \E e1, e2 \in EventsOf("w1", "aFree") :
          /\ e1 < e2
          /\ usageEvent[e1].status = "CAPTURED" /\ IsNull(usageEvent[e1].feeDeducted)
          /\ usageEvent[e2].feeDeducted = Some(agent["aFree"].rate)
          /\ EthBalanceOf("w1", "aFree") = EthCredited("w1", "aFree") - agent["aFree"].rate

\* C13: a capture request, successful or not, changes nothing but the
\* status of the event it targets: every UserBalance row, every other
\* UsageEvent and the targeted event's feeDeducted and creditsDeducted (and
\* its other columns) are the same before and after, and no event is created.
C13_CaptureFrame ==
    [][\A q \in ArrivedNow :
          q.kind = "capture"
          => /\ userBalance' = userBalance
             /\ DOMAIN usageEvent' = DOMAIN usageEvent
             /\ \A x \in DOMAIN usageEvent :
                   usageEvent'[x] = [usageEvent[x] EXCEPT
                                       !.status = IF x = q.eventId
                                                  THEN usageEvent'[x].status ELSE @]]_vars

\* An event holding a deduction was captured.
C13_Witness ==
    \E q \in Answers :
       /\ q.kind = "capture" /\ q.status = 200
       /\ usageEvent[q.eventId].status = "CAPTURED"
       /\ FeeOf(q.eventId) + CreditsOf(q.eventId) > 0
       /\ HasBalance(usageEvent[q.eventId].userWalletAddress, usageEvent[q.eventId].agentId)

(* ------- top-up submission and confirmation, statement by statement ---- *)
MaxSubmits == 2        \* number of top-up submission requests in a run
MaxInvocations == 1    \* number of further invocations of the confirmation step

\* Amount strings the submission schema accepts (z.string()).
AnyAmountChoices == {"0.002", "-0.001", "abc"}

\* The amount is parsed for a FREE_TIER agent only: for any other agent the
\* amount strings are represented by one.
SubmitInputs(a, amt, c) ==
    /\ TopUpInputs(a, c)
    /\ (amt # "0.002" => a \in DOMAIN agent /\ agent[a].feeModelType = FREE_TIER)

\* The requests of one kind received so far.
NumOfKind(kind) ==
    BagCardinality([q \in {x \in Running : x.kind = kind} |-> inflight[q]])
    + BagCardinality([q \in {x \in Answers : x.kind = kind} |-> answered[q]])

\* Hashes a request can carry: the ones submitted so far and a new one.
HashChoices ==
    DOMAIN topUpTransaction \cup
    (IF Cardinality(DOMAIN topUpTransaction) < Len(TxHashSeq)
     THEN {TxHashSeq[Cardinality(DOMAIN topUpTransaction) + 1]} ELSE {})

\* What the caller of the confirmation step gets when it returns: the
\* submission handler answers 202, a bare invocation has no response.
ReturnStatus(q) == IF q.kind = "submit" THEN 202 ELSE 0

\* (mutant) txHash is no key: a second row for a txHash is not refused.
TxHashTaken_NoKey(h) == FALSE

\* The primary key of TopUpTransaction: txHash already has a row.
TxHashTaken(h) == h \in DOMAIN topUpTransaction

\* POST /api/top-up-details: topUpTransaction.create with status PENDING;
\* an existing txHash (primary key) raises P2002 -> 409.  Otherwise the
\* handler goes on to await simulateTransactionConfirmation(txHash).
SubmitCreate(h, w, a, amt, c) ==
    /\ LET q == [NewReq("submit", "create") EXCEPT
                   !.txHash = Some(h), !.agentId = a, !.walletAddress = w]
       IN IF TxHashTaken(h)
          THEN /\ Arrive(Finished(q, 409, NoBody))
               /\ UNCHANGED topUpTransaction
          ELSE /\ Arrive([q EXCEPT !.pc = "find"])
               /\ topUpTransaction' = topUpTransaction @@
                    (h :> [status |-> "PENDING", userWalletAddress |-> w, agentId |-> a,
                           amountInEth |-> amt, creditsToTopUp |-> c,
                           errorMessage |-> Null])
    /\ UNCHANGED <<agent, userBalance, usageEvent, nextId>>

\* simulateTransactionConfirmation(txHash) called once more, from outside a
\* submission (a scheduler retrying the step).
InvokeConfirmation(h) ==
    /\ Arrive([NewReq("confirm", "find") EXCEPT !.txHash = Some(h)])
    /\ UNCHANGED <<agent, userBalance, usageEvent, topUpTransaction, nextId>>

\* (mutant) the guard looks for the record only, not for its status.
IsPendingRecord_AnyStatus(h) == h \in DOMAIN topUpTransaction

\* !topUpRecord || topUpRecord.status !== "PENDING", negated.
IsPendingRecord(h) ==
    h \in DOMAIN topUpTransaction /\ topUpTransaction[h].status = "PENDING"

\* topUpTransaction.findUnique where {txHash}; no record or a record that is
\* not PENDING: the step returns.  Otherwise agent.findUnique where
\* {id: agentId} follows (the Agent table does not change in between, the two
\* reads are one step); no agent: throw, caught below.
WorkerFind(q) ==
    /\ q.kind \in {"submit", "confirm"} /\ q.pc = "find"
    /\ LET h == Val(q.txHash)
       IN IF ~IsPendingRecord(h)
          THEN Step(q, Finished(q, ReturnStatus(q), NoBody))
          ELSE LET t == topUpTransaction[h]
                   q2 == [q EXCEPT !.agentId = t.agentId,
                                   !.walletAddress = t.userWalletAddress]
               IN IF t.agentId \in DOMAIN agent
                  THEN Step(q, [q2 EXCEPT !.pc = "credit",
                                  !.feeModel = Some(agent[t.agentId].feeModelType)])
                  ELSE Step(q, [q2 EXCEPT !.pc = "failed"])
    /\ UNCHANGED <<agent, userBalance, usageEvent, topUpTransaction, nextId>>

\* topUpTransaction.update where {txHash} data {status: "CONFIRMED"}.
MarkConfirmed(h) == [topUpTransaction EXCEPT ![h].status = "CONFIRMED"]

\* (mutant) the FAILED update writes no errorMessage.
MarkFailed_NoMessage(h) == [topUpTransaction EXCEPT ![h].status = "FAILED"]

\* topUpTransaction.update where {txHash}
\* data {status: "FAILED", errorMessage: JSON.stringify(error)}.
MarkFailed(h) ==
    [topUpTransaction EXCEPT ![h].status = "FAILED", ![h].errorMessage = Some("{}")]

\* The $transaction of the step: userBalance.upsert and the CONFIRMED update
\* commit together.  For FREE_TIER the amount is parsed first, and a string
\* that is no decimal throws before any statement is sent.  The two
\* statements and the COMMIT are taken as one step: nothing of the
\* transaction is visible before COMMIT.
WorkerCredit(q) ==
    /\ q.kind \in {"submit", "confirm"} /\ q.pc = "credit"
    /\ LET h == Val(q.txHash)
           t == topUpTransaction[h]
       IN IF Val(q.feeModel) = FREE_TIER /\ IsNull(DecimalOf(t.amountInEth))
          THEN /\ Step(q, [q EXCEPT !.pc = "failed"])
               /\ UNCHANGED <<userBalance, topUpTransaction>>
          ELSE /\ ~BalLocked(q.walletAddress, q.agentId)
               /\ userBalance' = UpsertBalance(q.walletAddress, q.agentId,
                                     Val(q.feeModel), t.amountInEth, t.creditsToTopUp)
               /\ topUpTransaction' = MarkConfirmed(h)
               /\ Step(q, Finished(q, ReturnStatus(q), NoBody))
    /\ UNCHANGED <<agent, usageEvent, nextId>>

\* (mutant) the catch block returns without the FAILED update.
WorkerFail_NoUpdate(q) ==
    /\ q.kind \in {"submit", "confirm"} /\ q.pc = "failed"
    /\ Step(q, Finished(q, ReturnStatus(q), NoBody))
    /\ UNCHANGED <<agent, userBalance, usageEvent, topUpTransaction, nextId>>

\* catch: the record is marked FAILED with the serialized error.
WorkerFail(q) ==
    /\ q.kind \in {"submit", "confirm"} /\ q.pc = "failed"
    /\ topUpTransaction' = MarkFailed(Val(q.txHash))
    /\ Step(q, Finished(q, ReturnStatus(q), NoBody))
    /\ UNCHANGED <<agent, userBalance, usageEvent, nextId>>

\* Submissions with their awaited confirmation, nothing else.
NextSubmit ==
    \/ \E h \in HashChoices, w \in Wallets, a \in AgentIds \cup {UnknownAgent},
          amt \in AnyAmountChoices, c \in CreditsToTopUpChoices :
          /\ NumOfKind("submit") < MaxSubmits
          /\ SubmitInputs(a, amt, c) /\ SubmitCreate(h, w, a, amt, c) /\ UNCHANGED clientVars
    \/ \E q \in Running : WorkerFind(q) /\ UNCHANGED clientVars
    \/ \E q \in Running : WorkerCredit(q) /\ UNCHANGED clientVars
    \/ \E q \in Running : WorkerFail(q) /\ UNCHANGED clientVars

SpecSubmit == Init /\ [][NextSubmit]_vars

MaxTopUpSubmits == 1   \* submissions in a run that also invokes the confirmation step

\* Submissions, and the confirmation step invoked again from outside.
NextTopUp ==
    \/ \E h \in HashChoices, w \in Wallets, a \in AgentIds \cup {UnknownAgent},
          amt \in AnyAmountChoices, c \in CreditsToTopUpChoices :
          /\ NumOfKind("submit") < MaxTopUpSubmits
          /\ SubmitInputs(a, amt, c) /\ SubmitCreate(h, w, a, amt, c) /\ UNCHANGED clientVars
    \/ \E h \in HashChoices : NumOfKind("confirm") < MaxInvocations /\ InvokeConfirmation(h) /\ UNCHANGED clientVars
    \/ \E q \in Running : WorkerFind(q) /\ UNCHANGED clientVars
    \/ \E q \in Running : WorkerCredit(q) /\ UNCHANGED clientVars
    \/ \E q \in Running : WorkerFail(q) /\ UNCHANGED clientVars

SpecTopUp == Init /\ [][NextTopUp]_vars

\* C12 (as stated): after any sequence of top-up submissions and
\* confirmations, with any amountInEth string the submission accepts, every
\* UserBalance row has ethBalance >= 0 and creditBalance >= 0.
C12_NonNegativeAnyAmount ==
    \A w \in Wallets, a \in AgentIds :
        EthBalanceOf(w, a) >= 0 /\ CreditBalanceOf(w, a) >= 0

\* Each (wallet, agent) balance is the sum of the CONFIRMED top-ups for it.
CreditedAsConfirmed ==
    \A w \in Wallets, a \in AgentIds :
        /\ EthBalanceOf(w, a) = EthCredited(w, a)
        /\ CreditBalanceOf(w, a) = CreditsCredited(w, a)

\* A submission whose txHash has a row is answered 409 by its create
\* statement, and that is all it does.
DuplicateRejected ==
    \A q \in ArrivedNow :
        (q.kind = "submit" /\ Val(q.txHash) \in DOMAIN topUpTransaction)
        => /\ q.pc = "done" /\ q.status = 409
           /\ inflight' = inflight
           /\ UNCHANGED <<topUpTransaction, userBalance>>

\* C14: a submission whose txHash already has a TopUpTransaction row, in
\* any status and also while the first submission is still being handled,
\* fails with 409, creates no second row, starts no confirmation step, and
\* the balance is never credited twice for a txHash: with submissions only,
\* every balance is the sum of the CONFIRMED top-ups.
C14_DuplicateSubmission ==
    []CreditedAsConfirmed /\ [][DuplicateRejected]_vars

\* A txHash was submitted twice: the first submission was confirmed and
\* credited, the second was answered 409.
C14_Witness ==
    \E q1, q2 \in Answers :
       /\ q1.kind = "submit" /\ q2.kind = "submit"
       /\ q1.txHash = q2.txHash
       /\ q1.status = 202 /\ q2.status = 409
       /\ topUpTransaction[Val(q1.txHash)].status = "CONFIRMED"
       /\ EthBalanceOf(q1.walletAddress, q1.agentId)
             + CreditBalanceOf(q1.walletAddress, q1.agentId) > 0

\* C15: the confirmation step running its lookup for a txHash whose record
\* is already CONFIRMED or FAILED returns at once: no balance changes (the
\* one credit stays the only one) and the record's status and errorMessage
\* stay as they are.
C15_SecondInvocationNoOp ==
    [][\A q \in Acting :
          (/\ q.kind \in {"submit", "confirm"} /\ q.pc = "find"
           /\ Val(q.txHash) \in DOMAIN topUpTransaction
           /\ topUpTransaction[Val(q.txHash)].status \in {"CONFIRMED", "FAILED"})
          => /\ AnsweredNow = {Finished(q, ReturnStatus(q), NoBody)}
             /\ UNCHANGED <<userBalance, topUpTransaction>>]_vars

\* The confirmation step ran twice for a txHash, the record is CONFIRMED
\* and the balance holds the amount once.
C15_Witness ==
    \E q1, q2 \in Answers :
       /\ q1.kind = "submit" /\ q1.status = 202 /\ q2.kind = "confirm"
       /\ q1.txHash = q2.txHash
       /\ topUpTransaction[Val(q1.txHash)].status = "CONFIRMED"
       /\ EthBalanceOf(q1.walletAddress, q1.agentId) = 2
       /\ CreditedAsConfirmed

\* C16: when invocations of the confirmation step for one PENDING txHash
\* overlap, the balance is credited once: every balance is the sum of the
\* CONFIRMED top-ups for it.
C16_OverlapCreditsOnce ==
    \A key \in DOMAIN userBalance :
        /\ userBalance[key].ethBalance = EthCredited(key[1], key[2])
        /\ userBalance[key].creditBalance = CreditsCredited(key[1], key[2])

(* ------------- one client, one request at a time (scenarios) ----------- *)
MaxSeqReqs == 7        \* number of track/capture requests in a sequential run
MaxSeqTopUps == 2      \* number of top-ups in a sequential run

\* The agents of the documented test scenario: FREE_TIER with threshold 2
\* and rate 0.001, CREDIT_BASED with 2 credits per prompt.
ScenarioAgents ==
    [a \in AgentIds |->
       IF a = "aFree"
       THEN [feeModelType |-> FREE_TIER, threshold |-> 2, rate |-> 1,
             creditsPerPrompt |-> 0]
       ELSE [feeModelType |-> CREDIT_BASED, threshold |-> 0, rate |-> 0,
             creditsPerPrompt |-> 2]]

InitSeq ==
    /\ agent = ScenarioAgents
    /\ userBalance = <<>>
    /\ usageEvent = <<>>
    /\ topUpTransaction = <<>>
    /\ inflight = EmptyBag
    /\ answered = EmptyBag
    /\ nextId = 1
    /\ chat = ChatIdle
    /\ call = NoCall
    /\ poll = NoPoll

\* Decimal.toString() of a balance of n units of 0.001 ETH.
DecimalToString(n) ==
    IF n = 0 THEN "0"
    ELSE IF n = 1 THEN "0.001"
    ELSE IF n = 2 THEN "0.002"
    ELSE IF n = 3 THEN "0.003"
    ELSE IF n = 4 THEN "0.004"
    ELSE IF n = 0 - 1 THEN "-0.001"
    ELSE "other"

\* BigInt.toString() of a credit balance.
BigIntToString(n) ==
    IF n = 0 THEN "0"
    ELSE IF n = 1 THEN "1"
    ELSE IF n = 2 THEN "2"
    ELSE IF n = 3 THEN "3"
    ELSE IF n = 4 THEN "4"
    ELSE IF n = 5 THEN "5"
    ELSE IF n = 6 THEN "6"
    ELSE "other"

\* GET /api/balance: {eth, credits} as strings, "0" and "0" without a row.
GetBalance(w, a) ==
    IF HasBalance(w, a)
    THEN [eth |-> DecimalToString(userBalance[<<w, a>>].ethBalance),
          credits |-> BigIntToString(userBalance[<<w, a>>].creditBalance)]
    ELSE [eth |-> "0", credits |-> "0"]

\* The client has no call outstanding: every request was answered and every
\* submitted top-up was confirmed or failed.
Quiet ==
    /\ Running = {}
    /\ \A h \in DOMAIN topUpTransaction : topUpTransaction[h].status # "PENDING"

\* The top-ups of the scenarios: the price of one prompt.
SeqTopUps == {<<"aFree", Null>>, <<"aCredit", Some(2)>>}

NextSeq ==
    \/ \E a \in AgentIds, w \in Wallets :
          Quiet /\ NumReqs < MaxSeqReqs /\ TrackRead(a, w, Null, Null) /\ UNCHANGED clientVars
    \/ \E q \in Running : TrackCount(q) /\ UNCHANGED clientVars
    \/ \E q \in Running : TrackDecEth(q) /\ UNCHANGED clientVars
    \/ \E q \in Running : TrackDecCredits(q) /\ UNCHANGED clientVars
    \/ \E q \in Running : TrackCreate(q) /\ UNCHANGED clientVars
    \/ \E q \in Running : TrackCommit(q) /\ UNCHANGED clientVars
    \/ \E e \in DOMAIN usageEvent : Quiet /\ NumReqs < MaxSeqReqs /\ Capture(e) /\ UNCHANGED clientVars
    \/ \E w \in Wallets, t \in SeqTopUps :
          /\ Quiet /\ Cardinality(DOMAIN topUpTransaction) < MaxSeqTopUps
          /\ SubmitTopUp(w, t[1], "0.001", t[2]) /\ UNCHANGED clientVars
    \/ \E h \in DOMAIN topUpTransaction : ConfirmTopUp(h) /\ UNCHANGED clientVars

SpecSeq == InitSeq /\ [][NextSeq]_vars

\* The top-up this step confirms, if it confirms one.
ConfirmedNow ==
    {h \in DOMAIN topUpTransaction :
        topUpTransaction[h].status = "PENDING" /\ topUpTransaction'[h].status = "CONFIRMED"}

\* A track that succeeds takes from the balance what it records on its event.
RoundTripTrack ==
    \A q \in AnsweredNow :
        (q.kind = "track" /\ q.status = 200)
        => LET e == q.body.val
               w == q.walletAddress
               a == q.agentId
           IN /\ e \in DOMAIN usageEvent' \ DOMAIN usageEvent
              /\ EthBalanceOf(w, a)' = EthBalanceOf(w, a) - FeeOf(e)'
              /\ CreditBalanceOf(w, a)' = CreditBalanceOf(w, a) - CreditsOf(e)'

\* A capture leaves what getBalance returns as it is.
RoundTripCapture ==
    \A q \in AnsweredNow :
        q.kind = "capture"
        => \A w \in Wallets, a \in AgentIds : GetBalance(w, a)' = GetBalance(w, a)

\* A confirmed top-up adds amountInEth to the ETH balance of a FREE_TIER
\* agent, creditsToTopUp to the credit balance of a CREDIT_BASED agent.
RoundTripTopUp ==
    \A h \in ConfirmedNow :
        LET t == topUpTransaction[h]
            w == t.userWalletAddress
            a == t.agentId
        IN IF agent[a].feeModelType = FREE_TIER
           THEN /\ EthBalanceOf(w, a)' = EthBalanceOf(w, a) + Val(DecimalOf(t.amountInEth))
                /\ CreditBalanceOf(w, a)' = CreditBalanceOf(w, a)
           ELSE /\ CreditBalanceOf(w, a)' = CreditBalanceOf(w, a) + Val(t.creditsToTopUp)
                /\ EthBalanceOf(w, a)' = EthBalanceOf(w, a)

\* C17: track deducting X, capture, then a confirmed top-up of X bring
\* getBalance back to its value before the track: the track takes exactly X
\* (the amount it records), the capture changes no balance and the
\* confirmation adds exactly X to the matching currency; getBalance reports
\* the stored value, "0" without a row.
C17_RoundTrip ==
    [][RoundTripTrack /\ RoundTripCapture /\ RoundTripTopUp]_vars

\* CREDIT_BASED: top-up of 2 (balance "2"), track deducting 2, capture,
\* top-up of 2: getBalance reports "2" credits again.
C17_Witness ==
    /\ Quiet
    /\ GetBalance("w1", "aCredit").credits = "2"
    /\ Cardinality(ConfirmedTopUps("w1", "aCredit")) = 2
    /\ \E e \in EventsOf("w1", "aCredit") :
          usageEvent[e].status = "CAPTURED" /\ CreditsOf(e) = 2
    /\ \A e \in EventsOf("w1", "aCredit") : usageEvent[e].status = "CAPTURED"
    /\ Cardinality(EventsOf("w1", "aCredit")) = 1

\* Scenario A, track: free and balance untouched while fewer than 2 events
\* are CAPTURED; then 402 and no event with a balance below 0.001, and a
\* deduction of 0.001 otherwise.
ScenarioATrack ==
    \A q \in AnsweredNow :
        (q.kind = "track" /\ q.agentId = "aFree")
        => LET w == q.walletAddress
               ev == DOMAIN usageEvent' \ DOMAIN usageEvent
           IN IF Cardinality(CapturedEvents(w, "aFree")) < 2
              THEN /\ q.status = 200 /\ ev = {q.body.val}
                   /\ IsNull(usageEvent'[q.body.val].feeDeducted)
                   /\ GetBalance(w, "aFree")' = GetBalance(w, "aFree")
              ELSE IF GetBalance(w, "aFree").eth = "0"
              THEN /\ q.status = 402 /\ ev = {}
                   /\ UNCHANGED <<usageEvent, userBalance>>
              ELSE /\ q.status = 200 /\ ev = {q.body.val}
                   /\ usageEvent'[q.body.val].feeDeducted = DecimalOf("0.001")
                   /\ EthBalanceOf(w, "aFree")' =
                         EthBalanceOf(w, "aFree") - Val(DecimalOf("0.001"))

\* Scenario A, capture: a PENDING event is captured, the balance stays.
ScenarioACapture ==
    \A q \in AnsweredNow :
        (q.kind = "capture" /\ usageEvent[q.eventId].status = "PENDING")
        => /\ q.status = 200
           /\ usageEvent'[q.eventId].status = "CAPTURED"
           /\ UNCHANGED userBalance

\* Scenario A, top-up: 0.001 ETH confirmed on a balance of 0 gives 0.001.
ScenarioATopUp ==
    \A h \in DOMAIN topUpTransaction :
        (/\ topUpTransaction[h].status = "PENDING"
         /\ topUpTransaction[h].agentId = "aFree"
         /\ topUpTransaction[h].amountInEth = "0.001"
         /\ topUpTransaction'[h].status # "PENDING")
        => /\ topUpTransaction'[h].status = "CONFIRMED"
           /\ GetBalance(topUpTransaction[h].userWalletAddress, "aFree").eth = "0"
                => GetBalance(topUpTransaction[h].userWalletAddress, "aFree")'.eth = "0.001"

\* C18: Scenario A (FREE_TIER, threshold 2, rate 0.001, no balance row):
\* two track+capture pairs succeed with the reported balance staying 0, the
\* third track fails with 402 and creates no event, a confirmed top-up of
\* 0.001 makes the balance 0.001, the next track succeeds and deducts 0.001,
\* and after its capture the balance is 0.
C18_ScenarioA ==
    [][ScenarioATrack /\ ScenarioACapture /\ ScenarioATopUp]_vars

\* The end of Scenario A: two free CAPTURED events, a track refused with
\* 402, one confirmed top-up of 0.001, a third CAPTURED event that deducted
\* 0.001, and a reported balance of 0.
C18_Witness ==
    /\ Quiet
    /\ \E e1, e2, e3 \in EventsOf("w1", "aFree") :
          /\ e1 < e2 /\ e2 < e3
          /\ EventsOf("w1", "aFree") = {e1, e2, e3}
          /\ \A e \in {e1, e2, e3} : usageEvent[e].status = "CAPTURED"
          /\ IsNull(usageEvent[e1].feeDeducted) /\ IsNull(usageEvent[e2].feeDeducted)
          /\ usageEvent[e3].feeDeducted = DecimalOf("0.001")
    /\ \E q \in Answers : q.kind = "track" /\ q.agentId = "aFree" /\ q.status = 402
    /\ Cardinality(ConfirmedTopUps("w1", "aFree")) = 1
    /\ GetBalance("w1", "aFree").eth = "0"

(* ----------------------------- SDK: _apiCall --------------------------- *)
MAX_RETRIES == 2

\* HTTP responses an attempt can receive: a status, and whether the body
\* parses as JSON.
ResponseStatuses == {200, 400, 402, 404, 408, 409, 500, 503}
Responses == [status : ResponseStatuses, json : BOOLEAN]

\* response.ok
ResponseOk(r) == r.status >= 200 /\ r.status <= 299

\* (mutant) every failed attempt is retried.
IsErrorRetryable_Always(error) == TRUE

\* isErrorRetryable: anything that is not an EarnKitApiError is retryable,
\* an EarnKitApiError when its status is 5xx or 408.
IsErrorRetryable(error) ==
    IF error.type # "api" THEN TRUE
    ELSE (error.status >= 500 /\ error.status <= 599) \/ error.status = 408

\* The status of the EarnKitApiError the call throws after the loop.
ThrownStatus(lastError) ==
    IF lastError.type = "api" THEN lastError.status
    ELSE IF lastError.type = "abort" THEN 408
    ELSE 0

\* (mutant) the delay before every retry is the base unit.
Caught_FlatDelay(c, error) ==
    IF ~IsErrorRetryable(error) \/ c.i = MAX_RETRIES
    THEN [c EXCEPT !.lastError = error, !.pc = "thrown",
                   !.timer = IF c.timer = "armed" THEN "cleared" ELSE @,
                   !.result = ThrownStatus(error)]
    ELSE [c EXCEPT !.lastError = error, !.pc = "backoff",
                   !.delays = Append(@, 1000)]

\* The catch block of attempt i with the error it caught, and the throw
\* after the loop when the loop is left.
Caught(c, error) ==
    IF ~IsErrorRetryable(error) \/ c.i = MAX_RETRIES
    THEN [c EXCEPT !.lastError = error, !.pc = "thrown",
                   !.timer = IF c.timer = "armed" THEN "cleared" ELSE @,
                   !.result = ThrownStatus(error)]
    ELSE [c EXCEPT !.lastError = error, !.pc = "backoff",
                   !.delays = Append(@, 1000 * 2 ^ c.i)]

\* _apiCall is entered: the timeout is armed and attempt 0 starts.
ApiCallStart ==
    /\ call.pc = "none"
    /\ call' = [call EXCEPT !.pc = "fetch", !.timer = "armed"]
    /\ UNCHANGED <<agent, userBalance, usageEvent, topUpTransaction, inflight,
                   answered, nextId, chat, poll>>

\* The timeout fires: controller.abort().
ApiCallTimeout ==
    /\ call.timer = "armed"
    /\ call' = [call EXCEPT !.timer = "fired"]
    /\ UNCHANGED <<agent, userBalance, usageEvent, topUpTransaction, inflight,
                   answered, nextId, chat, poll>>

\* fetch rejects: with an AbortError once the signal is aborted, with a
\* network error otherwise.
FetchRejects ==
    /\ call.pc = "fetch"
    /\ call' = Caught([call EXCEPT !.response = NoResponse],
                      [type |-> IF call.timer = "fired" THEN "abort" ELSE "network",
                       status |-> 0])
    /\ UNCHANGED <<agent, userBalance, usageEvent, topUpTransaction, inflight,
                   answered, nextId, chat, poll>>

\* fetch resolves with a response.  Not ok: the body is parsed and an
\* EarnKitApiError with the response's status is thrown.  Ok: the timeout is
\* cleared and the parsed body returned.  A body that does not parse throws
\* a SyntaxError inside the try block.
FetchResponds(r) ==
    /\ call.pc = "fetch" /\ call.timer # "fired"
    /\ LET c == [call EXCEPT !.response = r]
       IN call' =
            IF ~ResponseOk(r)
            THEN Caught(c, IF r.json THEN [type |-> "api", status |-> r.status]
                           ELSE [type |-> "syntax", status |-> 0])
            ELSE IF r.json
                 THEN [c EXCEPT !.pc = "returned", !.timer = "cleared",
                                !.result = r.status]
                 ELSE Caught([c EXCEPT !.timer = "cleared"],
                             [type |-> "syntax", status |-> 0])
    /\ UNCHANGED <<agent, userBalance, usageEvent, topUpTransaction, inflight,
                   answered, nextId, chat, poll>>

\* The backoff delay has passed: the next attempt starts.
BackoffDone ==
    /\ call.pc = "backoff"
    /\ call' = [call EXCEPT !.pc = "fetch", !.i = @ + 1]
    /\ UNCHANGED <<agent, userBalance, usageEvent, topUpTransaction, inflight,
                   answered, nextId, chat, poll>>

NextSdk ==
    \/ ApiCallStart
    \/ ApiCallTimeout
    \/ FetchRejects
    \/ \E r \in Responses : FetchResponds(r)
    \/ BackoffDone

SpecSdk == Init /\ [][NextSdk]_vars

\* C20 (as stated): an attempt is followed by another one only when it
\* failed with a network-level error or was answered with status 5xx or 408;
\* an attempt answered with another 4xx status ends the call, which throws
\* an error with that status.
C20_RetryOnlyTransient ==
    [][(call.pc = "fetch" /\ call'.pc # "fetch")
       => LET r == call'.response
          IN /\ call'.pc = "backoff"
                  => \/ r = NoResponse
                     \/ (r.status >= 500 /\ r.status <= 599)
                     \/ r.status = 408
             /\ (r.status >= 400 /\ r.status <= 499 /\ r.status # 408)
                  => call'.pc = "thrown" /\ call'.result = r.status]_vars

(* ------------------- example agent: ChatPage.handleSubmit -------------- *)
MaxFlows == 2

\* track's result as the SDK returns it: response.data.eventId when present.
TrackEventId(q) ==
    IF q.status = 200 /\ q.body.tag = "string" THEN Some(q.body.val) ELSE Null

\* (mutant) the catch block does not call release.
ChatCaught_NoRelease(c) == [c EXCEPT !.pc = "idle", !.outcome = "failed"]

\* The catch block: release when track had returned an event id.
ChatCaught(c) ==
    IF IsNull(c.eventId) THEN [c EXCEPT !.pc = "idle", !.outcome = "failed"]
    ELSE [c EXCEPT !.pc = "release"]

\* handleSubmit once the request it awaits is answered as q.
ChatAnswered(c, q) ==
    IF q.kind = "track"
    THEN IF IsNull(TrackEventId(q)) THEN ChatCaught(c)
         ELSE [c EXCEPT !.pc = "ai", !.eventId = TrackEventId(q)]
    ELSE IF q.kind = "capture"
    THEN IF q.status = 200 THEN [c EXCEPT !.pc = "idle", !.outcome = "captured"]
         ELSE ChatCaught(c)
    ELSE [c EXCEPT !.pc = "idle",
                   !.outcome = IF q.status = 200 THEN "released" ELSE "failed"]

\* handleSubmit after a step of the request it awaits.
ChatAwaits ==
    /\ chat' = IF AnsweredNow = {} THEN chat
               ELSE ChatAnswered(chat, CHOOSE q \in AnsweredNow : TRUE)
    /\ UNCHANGED <<call, poll>>

\* The user sends a prompt: activeAgent.track({walletAddress}).
ChatSubmit(a, w) ==
    /\ chat.pc = "idle"
    /\ TrackRead(a, w, Null, Null)
    /\ chat' = [pc |-> "track", eventId |-> Null, outcome |-> "none"]
    /\ UNCHANGED <<call, poll>>

\* The AI call succeeds: activeAgent.capture({eventId}).
ChatAiResponds ==
    /\ chat.pc = "ai"
    /\ Capture(Val(chat.eventId))
    /\ ChatAwaits

\* The AI call fails: the catch block runs.
ChatAiFails ==
    /\ chat.pc = "ai"
    /\ chat' = ChatCaught(chat)
    /\ UNCHANGED <<agent, userBalance, usageEvent, topUpTransaction, inflight,
                   answered, nextId, call, poll>>

\* activeAgent.release({eventId}) in the catch block.
ChatRelease ==
    /\ chat.pc = "release"
    /\ ReleaseFind(Val(chat.eventId))
    /\ chat' = IF AnsweredNow = {} THEN [chat EXCEPT !.pc = "releasing"]
               ELSE ChatAnswered(chat, CHOOSE q \in AnsweredNow : TRUE)
    /\ UNCHANGED <<call, poll>>

NextChat ==
    \/ \E a \in AgentIds, w \in Wallets :
          NumOfKind("track") < MaxFlows /\ ChatSubmit(a, w)
    \/ \E q \in Running : TrackCount(q) /\ ChatAwaits
    \/ \E q \in Running : TrackDecEth(q) /\ ChatAwaits
    \/ \E q \in Running : TrackDecCredits(q) /\ ChatAwaits
    \/ \E q \in Running : TrackCreate(q) /\ ChatAwaits
    \/ \E q \in Running : TrackCommit(q) /\ ChatAwaits
    \/ ChatAiResponds
    \/ ChatAiFails
    \/ ChatRelease
    \/ \E q \in Running : ReleaseRefund(q) /\ ChatAwaits
    \/ \E q \in Running : ReleaseCancel(q) /\ ChatAwaits
    \/ \E q \in Running : ReleaseCommit(q) /\ ChatAwaits
    \/ \E w \in Wallets, a \in AgentIds,
          amt \in AmountInEthChoices, c \in CreditsToTopUpChoices :
          /\ Cardinality(DOMAIN topUpTransaction) < MaxTopUps
          /\ TopUpInputs(a, c) /\ SubmitTopUp(w, a, amt, c) /\ UNCHANGED clientVars
    \/ \E h \in DOMAIN topUpTransaction : ConfirmTopUp(h) /\ UNCHANGED clientVars

SpecChat == Init /\ [][NextChat]_vars

\* The events of (w, a) whose deduction stands: the ones not CANCELLED.
StandingEvents(w, a) == {e \in EventsOf(w, a) : usageEvent[e].status # "CANCELLED"}

\* The balance of (w, a) is what was credited less the deductions of the
\* standing events, each counted once.
ChargedOnceEach(w, a) ==
    /\ EthBalanceOf(w, a) =
         EthCredited(w, a) - SumOver([e \in DOMAIN usageEvent |-> FeeOf(e)],
                                     StandingEvents(w, a))
    /\ CreditBalanceOf(w, a) =
         CreditsCredited(w, a) - SumOver([e \in DOMAIN usageEvent |-> CreditsOf(e)],
                                         StandingEvents(w, a))

C21_AttemptsAndBackoff ==
    /\ call.i + 1 <= 3
    /\ Len(call.delays) <= 2
    /\ call.pc = "fetch" => Len(call.delays) = call.i
    /\ \A k \in 1..Len(call.delays) : call.delays[k] = 2 ^ (k - 1) * 1000

\* The call failed after its third attempt, having waited 1000 and 2000 ms.
C21_Witness ==
    call.pc = "thrown" /\ call.i = 2 /\ call.delays = <<1000, 2000>>

\* C22 (as stated): one timeout covers all the attempts of a call (while an
\* attempt is in flight or a retry is awaited the timeout is armed or has
\* fired), and a call whose timeout has fired does not return a result and
\* fails with status 408.
C22_GlobalTimeout ==
    /\ call.pc \in {"fetch", "backoff"} => call.timer \in {"armed", "fired"}
    /\ call.timer = "fired" => call.pc # "returned"
    /\ call.timer = "fired" /\ call.pc = "thrown" => call.result = 408

(* ----------------------- SDK: pollForBalanceUpdate --------------------- *)
MaxPolls == 2

\* parseFloat of a balance string, in units of 0.001.
ParseFloat(s) == CHOOSE n \in (0 - 1)..4 : DecimalToString(n) = s

\* BigInt of a credits string.
BigIntOf(s) == CHOOSE n \in 0..6 : BigIntToString(n) = s

\* (mutant) the comparison is not strict.
BalanceIncreased_NotStrict(current, initial) ==
    \/ ParseFloat(current.eth) >= ParseFloat(initial.eth)
    \/ BigIntOf(current.credits) >= BigIntOf(initial.credits)

\* ethIncreased || creditsIncreased
BalanceIncreased(current, initial) ==
    \/ ParseFloat(current.eth) > ParseFloat(initial.eth)
    \/ BigIntOf(current.credits) > BigIntOf(initial.credits)

\* pollForBalanceUpdate({walletAddress, initialBalance, maxPolls, ...}) on
\* the SDK instance of agent a: setInterval.
PollStart(w, a, maxPolls) ==
    /\ poll.interval = "none"
    /\ poll' = [NoPoll EXCEPT !.interval = "running", !.maxPolls = maxPolls,
                              !.walletAddress = w, !.agentId = a,
                              !.initialBalance = GetBalance(w, a)]
    /\ UNCHANGED <<agent, userBalance, usageEvent, topUpTransaction, inflight,
                   answered, nextId, chat, call>>

\* The interval fires: the callback stops at maxPolls, and starts a
\* getBalance otherwise.
PollTick ==
    /\ poll.interval = "running"
    /\ poll' = IF poll.pollCount >= poll.maxPolls
               THEN [poll EXCEPT !.interval = "cleared", !.timeouts = @ + 1]
               ELSE [poll EXCEPT !.pollCount = @ + 1, !.pending = @ + 1]
    /\ UNCHANGED <<agent, userBalance, usageEvent, topUpTransaction, inflight,
                   answered, nextId, chat, call>>

\* A getBalance of a callback resolves with the balance of the moment.
PollFetched ==
    /\ poll.pending > 0
    /\ LET current == GetBalance(poll.walletAddress, poll.agentId)
       IN poll' = IF BalanceIncreased(current, poll.initialBalance)
                  THEN [poll EXCEPT !.pending = @ - 1, !.currentBalance = Some(current),
                                    !.interval = "cleared", !.confirmations = @ + 1]
                  ELSE [poll EXCEPT !.pending = @ - 1, !.currentBalance = Some(current)]
    /\ UNCHANGED <<agent, userBalance, usageEvent, topUpTransaction, inflight,
                   answered, nextId, chat, call>>

\* A getBalance of a callback throws.
PollFetchFails ==
    /\ poll.pending > 0
    /\ poll' = [poll EXCEPT !.pending = @ - 1, !.currentBalance = Null,
                            !.interval = "cleared", !.timeouts = @ + 1]
    /\ UNCHANGED <<agent, userBalance, usageEvent, topUpTransaction, inflight,
                   answered, nextId, chat, call>>

NextPoll ==
    \/ \E w \in Wallets, a \in AgentIds, n \in 1..MaxPolls : PollStart(w, a, n)
    \/ PollTick
    \/ PollFetched
    \/ PollFetchFails
    \/ \E w \in Wallets, a \in AgentIds,
          amt \in AmountInEthChoices, c \in CreditsToTopUpChoices :
          /\ Cardinality(DOMAIN topUpTransaction) < MaxTopUps
          /\ TopUpInputs(a, c) /\ SubmitTopUp(w, a, amt, c) /\ UNCHANGED clientVars
    \/ \E h \in DOMAIN topUpTransaction : ConfirmTopUp(h) /\ UNCHANGED clientVars

\* The interval keeps firing until it is cleared.
SpecPoll == Init /\ [][NextPoll]_vars /\ WF_vars(PollTick)

\* This step a getBalance of the poll settles.
PollSettles == poll'.pending = poll.pending - 1

\* C23: pollForBalanceUpdate starts at most maxPolls balance fetches; a
\* fetch that returns an ETH or credit value strictly greater than the
\* baseline stops the polling and calls onConfirmation, a fetch that returns
\* no increase changes nothing, a fetch that fails stops the polling and
\* calls onTimeout; the callback that finds maxPolls reached stops the
\* polling and calls onTimeout; once stopped, no fetch is started; and the
\* polling always stops.
C23_PollStops ==
    /\ [](poll.pollCount <= poll.maxPolls)
    /\ [][PollSettles =>
            IF IsNull(poll'.currentBalance)
            THEN /\ poll'.interval = "cleared"
                 /\ poll'.timeouts = poll.timeouts + 1
                 /\ poll'.confirmations = poll.confirmations
            ELSE IF \/ ParseFloat(Val(poll'.currentBalance).eth)
                         > ParseFloat(poll.initialBalance.eth)
                    \/ BigIntOf(Val(poll'.currentBalance).credits)
                         > BigIntOf(poll.initialBalance.credits)
            THEN /\ poll'.interval = "cleared"
                 /\ poll'.confirmations = poll.confirmations + 1
                 /\ poll'.timeouts = poll.timeouts
            ELSE /\ poll'.interval = poll.interval
                 /\ poll'.confirmations = poll.confirmations
                 /\ poll'.timeouts = poll.timeouts]_vars
    /\ [][poll.interval = "running" /\ poll.pollCount = poll.maxPolls
              /\ poll' # poll /\ ~PollSettles
            => poll'.interval = "cleared" /\ poll'.timeouts = poll.timeouts + 1]_vars
    /\ [][poll.interval = "cleared"
            => poll'.interval = "cleared" /\ poll'.pollCount = poll.pollCount]_vars
    /\ (poll.interval = "running" ~> poll.interval = "cleared")

\* The polling was stopped by a fetch that found an increase, after an
\* earlier fetch had found none.
C23_Witness ==
    /\ poll.interval = "cleared" /\ poll.confirmations = 1 /\ poll.timeouts = 0
    /\ poll.pollCount = 2 /\ poll.pending = 0

(* ------------------- SDK: track re-sent with one key ------------------- *)
MaxRetryReqs == 3

\* The attempt in progress: call n, iteration i.
CurrentAttempt == Some(<<call.n, call.i>>)

\* The developer calls track({walletAddress, idempotencyKey}) on the SDK
\* instance of agent a (k is Null when the key is omitted), or calls it
\* again with the same arguments after the call has thrown.
RetryTrack(a, w, k) ==
    LET request == Some([agentId |-> a, walletAddress |-> w, idempotencyKey |-> k])
    IN /\ call.pc = "none" \/ (call.pc = "thrown" /\ call.request = request)
       /\ call.n < MaxRetryReqs - 1
       /\ call' = [NoCall EXCEPT !.pc = "fetch", !.timer = "armed",
                                 !.n = call.n + 1, !.request = request]
       /\ UNCHANGED <<agent, userBalance, usageEvent, topUpTransaction, inflight,
                      answered, nextId, chat, poll>>

\* The request of the attempt in progress reaches the server.
RetrySend ==
    /\ call.pc = "fetch" /\ call.timer # "fired"
    /\ ~\E q \in Running \cup Answers : q.attempt = CurrentAttempt
    /\ LET r == Val(call.request)
       IN TrackReceived([NewReq("track", "read") EXCEPT
                           !.agentId = r.agentId, !.walletAddress = r.walletAddress,
                           !.idempotencyKey = r.idempotencyKey,
                           !.attempt = CurrentAttempt])
    /\ UNCHANGED clientVars

\* The response to the request of the attempt in progress reaches the SDK.
RetryReceive ==
    \E q \in Answers :
        /\ q.attempt = CurrentAttempt
        /\ FetchResponds([status |-> q.status, json |-> TRUE])

\* The ledger after the top-ups of a funded wallet were confirmed: 0.002 ETH
\* for the free-tier agent, 3 credits for the credit-based one.
FundedTopUps ==
    ("h1" :> [status |-> "CONFIRMED", userWalletAddress |-> "w1", agentId |-> "aFree",
              amountInEth |-> "0.002", creditsToTopUp |-> Null, errorMessage |-> Null])
    @@ ("h2" :> [status |-> "CONFIRMED", userWalletAddress |-> "w1",
                 agentId |-> "aCredit", amountInEth |-> "0.002",
                 creditsToTopUp |-> Some(3), errorMessage |-> Null])
FundedBalances ==
    (<<"w1", "aFree">> :> [ethBalance |-> 2, creditBalance |-> 0])
    @@ (<<"w1", "aCredit">> :> [ethBalance |-> 0, creditBalance |-> 3])

\* The wallet has topped up both agents, or none.
InitRetry ==
    /\ agent \in AgentConfigs
    /\ \E funded \in BOOLEAN :
          /\ topUpTransaction = IF funded THEN FundedTopUps ELSE <<>>
          /\ userBalance = IF funded THEN FundedBalances ELSE <<>>
    /\ usageEvent = <<>>
    /\ inflight = EmptyBag
    /\ answered = EmptyBag
    /\ nextId = 1
    /\ chat = ChatIdle
    /\ call = NoCall
    /\ poll = NoPoll

NextRetry ==
    \/ \E a \in AgentIds, w \in Wallets, k \in Keys : RetryTrack(a, w, Some(k))
    \/ NumReqs < MaxRetryReqs /\ RetrySend
    \/ RetryReceive
    \/ FetchRejects
    \/ ApiCallTimeout
    \/ BackoffDone
    \/ \E q \in Running : TrackCount(q) /\ UNCHANGED clientVars
    \/ \E q \in Running : TrackDecEth(q) /\ UNCHANGED clientVars
    \/ \E q \in Running : TrackDecCredits(q) /\ UNCHANGED clientVars
    \/ \E q \in Running : TrackCreate(q) /\ UNCHANGED clientVars
    \/ \E q \in Running : TrackCommit(q) /\ UNCHANGED clientVars

SpecRetry == InitRetry /\ [][NextRetry]_vars

\* C24: when track is called with an idempotencyKey and re-sent with the
\* same key (SDK retries after lost responses, the developer calling again
\* after a thrown error such as a timeout), at most one UsageEvent exists for
\* the key, exactly one once a request was answered 200, and the balance has
\* been reduced by one deduction only: the one recorded on that event.
C24_ResentTrackChargedOnce ==
    \A a \in AgentIds, k \in Keys :
        LET keyed == {e \in DOMAIN usageEvent :
                        usageEvent[e].agentId = a
                        /\ usageEvent[e].idempotencyKey = Some(k)}
        IN /\ Cardinality(keyed) <= 1
           /\ (\E q \in Answers : q.agentId = a /\ q.idempotencyKey = Some(k)
                                     /\ q.status = 200)
                => Cardinality(keyed) = 1
           /\ \A w \in Wallets : ChargedOnceEach(w, a)

\* The second call returned after the server had received three requests
\* with the key, the first of which had committed a deduction.
C24_Witness ==
    /\ call.pc = "returned" /\ call.n = 2
    /\ NumReqs = 3
    /\ \E e \in DOMAIN usageEvent : FeeOf(e) + CreditsOf(e) > 0

(* --------------------- free-tier allowance under load ------------------ *)
MaxFreeReqs == 4

\* Keyless tracks on the free-tier agent and captures of their events.
NextFree ==
    \/ \E w \in Wallets :
          NumReqs < MaxFreeReqs /\ TrackRead("aFree", w, Null, Null) /\ UNCHANGED clientVars
    \/ \E q \in Running : TrackCount(q) /\ UNCHANGED clientVars
    \/ \E q \in Running : TrackDecEth(q) /\ UNCHANGED clientVars
    \/ \E q \in Running : TrackCreate(q) /\ UNCHANGED clientVars
    \/ \E q \in Running : TrackCommit(q) /\ UNCHANGED clientVars
    \/ \E e \in DOMAIN usageEvent :
          NumReqs < MaxFreeReqs /\ Capture(e) /\ UNCHANGED clientVars

SpecFree == InitRetry /\ [][NextFree]_vars

\* C25 (as stated): for a FREE_TIER agent with threshold T, each wallet has
\* at most T CAPTURED events with no fee deducted.
C25_AtMostThresholdFree ==
    \A w \in Wallets, a \in AgentIds :
        agent[a].feeModelType = FREE_TIER
          => Cardinality({e \in EventsOf(w, a) :
                            /\ usageEvent[e].status = "CAPTURED"
                            /\ IsNull(usageEvent[e].feeDeducted)})
               <= agent[a].threshold

\* C26 (as stated): a submission is answered 202 before the confirmation
\* step has credited the balance or changed the status: when the response is
\* sent the TopUpTransaction is still PENDING.
C26_FireAndForget ==
    [][\A q \in AnsweredNow :
          q.kind = "submit" /\ q.status = 202
            => topUpTransaction'[Val(q.txHash)].status = "PENDING"]_vars

\* C27: each (wallet, agent) balance is exactly the sum of the amounts of
\* its CONFIRMED top-ups (PENDING and FAILED ones have credited nothing); a
\* FAILED top-up carries an errorMessage; the step that turns a top-up
\* CONFIRMED is the step that adds its amount to the balance, and no other
\* step changes a balance; a CONFIRMED or FAILED top-up keeps its status.
C27_ConfirmedIffCredited ==
    /\ [](\A w \in Wallets, a \in AgentIds \cup {UnknownAgent} :
             /\ EthBalanceOf(w, a) = EthCredited(w, a)
             /\ CreditBalanceOf(w, a) = CreditsCredited(w, a))
    /\ [](\A h \in DOMAIN topUpTransaction :
             topUpTransaction[h].status = "FAILED"
               => ~IsNull(topUpTransaction[h].errorMessage))
    /\ [][/\ userBalance' # userBalance => ConfirmedNow # {}
          /\ \A h \in ConfirmedNow :
                LET t == topUpTransaction[h]
                    w == t.userWalletAddress
                    a == t.agentId
                IN IF agent[a].feeModelType = FREE_TIER
                   THEN /\ EthBalanceOf(w, a)' = EthBalanceOf(w, a)
                                                   + Val(DecimalOf(t.amountInEth))
                        /\ CreditBalanceOf(w, a)' = CreditBalanceOf(w, a)
                   ELSE /\ CreditBalanceOf(w, a)' = CreditBalanceOf(w, a)
                             + (IF IsNull(t.creditsToTopUp) THEN 0
                                ELSE Val(t.creditsToTopUp))
                        /\ EthBalanceOf(w, a)' = EthBalanceOf(w, a)
          /\ \A h \in DOMAIN topUpTransaction :
                topUpTransaction[h].status # "PENDING"
                  => topUpTransaction'[h].status = topUpTransaction[h].status]_vars

\* One top-up is CONFIRMED with its amount on the balance and another one of
\* the same wallet and agent is FAILED.
C27_Witness ==
    \E h1, h2 \in DOMAIN topUpTransaction :
        /\ topUpTransaction[h1].status = "CONFIRMED"
        /\ topUpTransaction[h2].status = "FAILED"
        /\ topUpTransaction[h1].agentId = topUpTransaction[h2].agentId
        /\ EthBalanceOf(topUpTransaction[h1].userWalletAddress,
                        topUpTransaction[h1].agentId) > 0

(* ------------------- confirmation runs to completion ------------------- *)
\* The $transaction of the step throws (a statement fails, the transaction
\* is rolled back): the catch block is entered.
WorkerCreditFails(q) ==
    /\ q.kind \in {"submit", "confirm"} /\ q.pc = "credit"
    /\ Step(q, [q EXCEPT !.pc = "failed"])
    /\ UNCHANGED <<agent, userBalance, usageEvent, topUpTransaction, nextId>>

\* The statements of a running confirmation step.
WorkerFinds == \E q \in Running : WorkerFind(q) /\ UNCHANGED clientVars
WorkerCredits == \E q \in Running : WorkerCredit(q) /\ UNCHANGED clientVars
WorkerCreditThrows == \E q \in Running : WorkerCreditFails(q) /\ UNCHANGED clientVars
WorkerCatches == \E q \in Running : WorkerFail(q) /\ UNCHANGED clientVars

NextConfirm ==
    \/ \E h \in HashChoices, w \in Wallets, a \in AgentIds \cup {UnknownAgent},
          amt \in AnyAmountChoices, c \in CreditsToTopUpChoices :
          /\ NumOfKind("submit") < MaxSubmits
          /\ SubmitInputs(a, amt, c) /\ SubmitCreate(h, w, a, amt, c) /\ UNCHANGED clientVars
    \/ WorkerFinds
    \/ WorkerCredits
    \/ WorkerCreditThrows
    \/ WorkerCatches

\* Every await of a running handler returns: its reads, its transaction
\* (committed or thrown) and the update of its catch block.
SpecConfirm ==
    /\ Init /\ [][NextConfirm]_vars
    /\ WF_vars(WorkerFinds)
    /\ WF_vars(WorkerCredits \/ WorkerCreditThrows)
    /\ WF_vars(WorkerCatches)

\* C28: every TopUpTransaction created PENDING by a submission eventually
\* is CONFIRMED or FAILED, also when its agent is missing or its credit
\* transaction fails.
C28_EventuallySettled ==
    \A i \in 1..Len(TxHashSeq) :
        (TxHashSeq[i] \in DOMAIN topUpTransaction)
          ~> (/\ TxHashSeq[i] \in DOMAIN topUpTransaction
              /\ topUpTransaction[TxHashSeq[i]].status \in {"CONFIRMED", "FAILED"})

\* A top-up whose credit transaction failed is FAILED and one whose agent
\* is missing is FAILED.
C28_Witness ==
    \E h1, h2 \in DOMAIN topUpTransaction :
        /\ topUpTransaction[h1].status = "FAILED"
        /\ topUpTransaction[h1].agentId \in DOMAIN agent
        /\ ~IsNull(DecimalOf(topUpTransaction[h1].amountInEth))
        /\ topUpTransaction[h2].status = "FAILED"
        /\ topUpTransaction[h2].agentId \notin DOMAIN agent

\* The UserBalance row of (w, a), a row of zeros when there is none.
RowOrZero(w, a) ==
    IF HasBalance(w, a) THEN userBalance[<<w, a>>]
    ELSE [ethBalance |-> 0, creditBalance |-> 0]

\* C29: the step that confirms a top-up leaves a UserBalance row for its
\* (wallet, agent) in which exactly the field of the agent's fee model has
\* grown: ethBalance by amountInEth for FREE_TIER, creditBalance by
\* creditsToTopUp (0 when absent) for CREDIT_BASED, the other field as it
\* was; a row that did not exist counts as a row of zeros.
C29_CreditsOneField ==
    [][\A h \in ConfirmedNow :
          LET t == topUpTransaction[h]
              w == t.userWalletAddress
              a == t.agentId
              old == RowOrZero(w, a)
          IN /\ HasBalance(w, a)'
             /\ userBalance'[<<w, a>>] =
                  IF agent[a].feeModelType = FREE_TIER
                  THEN [ethBalance |-> old.ethBalance + Val(DecimalOf(t.amountInEth)),
                        creditBalance |-> old.creditBalance]
                  ELSE [ethBalance |-> old.ethBalance,
                        creditBalance |-> old.creditBalance
                            + (IF IsNull(t.creditsToTopUp) THEN 0
                               ELSE Val(t.creditsToTopUp))]]_vars

\* Two top-ups of one wallet and agent are CONFIRMED: the first created the
\* row, the second incremented it.
C29_Witness ==
    \E h1, h2 \in DOMAIN topUpTransaction :
        /\ h1 # h2
        /\ topUpTransaction[h1].status = "CONFIRMED"
        /\ topUpTransaction[h2].status = "CONFIRMED"
        /\ topUpTransaction[h1].agentId = topUpTransaction[h2].agentId
        /\ topUpTransaction[h1].userWalletAddress = topUpTransaction[h2].userWalletAddress

(* --------------------- agents API: create and update ------------------- *)
MaxAgents == 2
MaxAgentReqs == 3

\* Ids of created agents, in order of creation.
NewAgentIds == <<"a1", "a2", "a3">>

\* feeModelConfig values a request body can carry: the two shapes, and an
\* object that has neither.
FreeTierConfig == [threshold |-> 1, rate |-> 1]
CreditBasedConfig == [creditsPerPrompt |-> 2, topUpOptions |-> <<>>]
ConfigChoices == {FreeTierConfig, CreditBasedConfig, [threshold |-> 1]}
FeeModelTypes == {FREE_TIER, CREDIT_BASED}

\* z.union([z.object({threshold, rate}), z.object({creditsPerPrompt,
\* topUpOptions})]): the first member the value satisfies, Null when none.
ParseFeeModelConfig(c) ==
    IF {"threshold", "rate"} \subseteq DOMAIN c
    THEN Some([threshold |-> c.threshold, rate |-> c.rate])
    ELSE IF {"creditsPerPrompt", "topUpOptions"} \subseteq DOMAIN c
    THEN Some([creditsPerPrompt |-> c.creditsPerPrompt, topUpOptions |-> c.topUpOptions])
    ELSE Null

\* createAgentSchema.safeParse(body).success
CreateAgentValid(type, c) ==
    type \in FeeModelTypes /\ ~IsNull(ParseFeeModelConfig(c))

\* POST /api/agents: 400 when the body fails the schema, otherwise
\* agent.create with the parsed feeModelType and feeModelConfig.
CreateAgent(type, c) ==
    /\ Cardinality(DOMAIN agent) < Len(NewAgentIds)
    /\ LET id == NewAgentIds[Cardinality(DOMAIN agent) + 1]
           q == [NewReq("createAgent", "validate") EXCEPT !.agentId = id]
       IN IF CreateAgentValid(type, c)
          THEN /\ agent' = agent @@
                     (id :> [feeModelType |-> type,
                             feeModelConfig |-> Val(ParseFeeModelConfig(c))])
               /\ Arrive(Finished(q, 201, NoBody))
          ELSE /\ UNCHANGED agent
               /\ Arrive(Finished(q, 400, NoBody))
    /\ UNCHANGED <<userBalance, usageEvent, topUpTransaction, nextId>>

\* PUT /api/agents/[agentId]: agent.update with feeModelType and
\* feeModelConfig as they are in the body (a missing field leaves the column);
\* P2025 (no such agent) -> 404.
UpdateAgent(a, type, c) ==
    /\ LET q == [NewReq("updateAgent", "update") EXCEPT !.agentId = a]
       IN IF a \in DOMAIN agent
          THEN /\ agent' = [agent EXCEPT
                    ![a] = [feeModelType |-> IF IsNull(type) THEN @.feeModelType
                                             ELSE Val(type),
                            feeModelConfig |-> IF IsNull(c) THEN @.feeModelConfig
                                               ELSE Val(c)]]
               /\ Arrive(Finished(q, 200, NoBody))
          ELSE /\ UNCHANGED agent
               /\ Arrive(Finished(q, 404, NoBody))
    /\ UNCHANGED <<userBalance, usageEvent, topUpTransaction, nextId>>

InitAgents ==
    /\ agent = <<>>
    /\ userBalance = <<>>
    /\ usageEvent = <<>>
    /\ topUpTransaction = <<>>
    /\ inflight = EmptyBag
    /\ answered = EmptyBag
    /\ nextId = 1
    /\ chat = ChatIdle
    /\ call = NoCall
    /\ poll = NoPoll

NextAgents ==
    \/ \E type \in FeeModelTypes, c \in ConfigChoices :
          /\ NumReqs < MaxAgentReqs /\ Cardinality(DOMAIN agent) < MaxAgents
          /\ CreateAgent(type, c) /\ UNCHANGED clientVars
    \/ \E a \in DOMAIN agent \cup {UnknownAgent},
          type \in {Null} \cup {Some(t) : t \in FeeModelTypes},
          c \in {Null} \cup {Some(x) : x \in ConfigChoices} :
          NumReqs < MaxAgentReqs /\ UpdateAgent(a, type, c) /\ UNCHANGED clientVars

SpecAgents == InitAgents /\ [][NextAgents]_vars

\* C30 (as stated): every Agent row's feeModelConfig has the shape of its
\* feeModelType: {threshold, rate} for FREE_TIER, {creditsPerPrompt,
\* topUpOptions} for CREDIT_BASED.
C30_ConfigMatchesType ==
    \A a \in DOMAIN agent :
        DOMAIN agent[a].feeModelConfig =
            IF agent[a].feeModelType = FREE_TIER
            THEN {"threshold", "rate"}
            ELSE {"creditsPerPrompt", "topUpOptions"}

(* --------------------------- deleting an agent ------------------------- *)
MaxDeleteReqs == 3    \* track, release and delete requests in a run
MaxDeleteTopUps == 1  \* top-up submissions in a run

\* Agents are deleted while tracks, releases and top-up confirmations for
\* them are under way.
NextDelete ==
    \/ \E a \in AgentIds, w \in Wallets :
          NumReqs < MaxDeleteReqs /\ TrackRead(a, w, Null, Null) /\ UNCHANGED clientVars
    \/ \E q \in Running : TrackCount(q) /\ UNCHANGED clientVars
    \/ \E q \in Running : TrackDecEth(q) /\ UNCHANGED clientVars
    \/ \E q \in Running : TrackDecCredits(q) /\ UNCHANGED clientVars
    \/ \E q \in Running : TrackCreate(q) /\ UNCHANGED clientVars
    \/ \E q \in Running : TrackCommit(q) /\ UNCHANGED clientVars
    \/ \E e \in DOMAIN usageEvent :
          NumReqs < MaxDeleteReqs /\ ReleaseFind(e) /\ UNCHANGED clientVars
    \/ \E q \in Running : ReleaseRefund(q) /\ UNCHANGED clientVars
    \/ \E q \in Running : ReleaseCancel(q) /\ UNCHANGED clientVars
    \/ \E q \in Running : ReleaseCommit(q) /\ UNCHANGED clientVars
    \/ \E q \in Running : DeadlockAbort(q) /\ UNCHANGED clientVars
    \/ \E a \in AgentIds :
          NumReqs < MaxDeleteReqs /\ DeleteFind(a) /\ UNCHANGED clientVars
    \/ \E q \in Running : DeleteBalances(q) /\ UNCHANGED clientVars
    \/ \E q \in Running : DeleteEvents(q) /\ UNCHANGED clientVars
    \/ \E q \in Running : DeleteAgentRow(q) /\ UNCHANGED clientVars
    \/ \E q \in Running : DeleteCommit(q) /\ UNCHANGED clientVars
    \/ \E w \in Wallets, a \in AgentIds, amt \in AmountInEthChoices,
          c \in CreditsToTopUpChoices :
          /\ Cardinality(DOMAIN topUpTransaction) < MaxDeleteTopUps
          /\ TopUpInputs(a, c) /\ SubmitTopUp(w, a, amt, c) /\ UNCHANGED clientVars
    \/ \E h \in DOMAIN topUpTransaction : ConfirmTopUp(h) /\ UNCHANGED clientVars

SpecDelete == Init /\ [][NextDelete]_vars

\* Every UserBalance and every UsageEvent references an existing Agent.
NoDanglingRows ==
    /\ \A key \in DOMAIN userBalance : key[2] \in DOMAIN agent
    /\ \A e \in DOMAIN usageEvent : usageEvent[e].agentId \in DOMAIN agent

\* The step that answers a delete: 200 leaves neither the agent nor a row
\* referencing it, any other status leaves the three tables as they were.
DeleteAllOrNothing ==
    \A q \in AnsweredNow :
        q.kind = "delete"
        => IF q.status = 200
           THEN /\ q.agentId \notin DOMAIN agent'
                /\ BalancesOfAgent(q.agentId)' = {}
                /\ EventsOfAgent(q.agentId)' = {}
           ELSE UNCHANGED <<agent, userBalance, usageEvent>>

\* C31: deleting an agent is atomic with respect to its ledger rows: a
\* delete answered 200 leaves no UserBalance and no UsageEvent referencing
\* the agent, a delete that fails leaves the agent and all rows unchanged,
\* and in no reachable state, whatever track, release or top-up confirmation
\* is interleaved with the delete, does a UserBalance or UsageEvent
\* reference an agent that does not exist.
C31_DeleteAtomic == []NoDanglingRows /\ [][DeleteAllOrNothing]_vars

\* A delete was refused because a row was committed between its statements,
\* and a later delete of the same agent, which had a charged event and a
\* balance, succeeded.
C31_Witness ==
    \E d1, d2 \in Answers :
       /\ d1.kind = "delete" /\ d2.kind = "delete"
       /\ d1.agentId = d2.agentId
       /\ d1.status = 500 /\ d2.status = 200
       /\ \E h \in DOMAIN topUpTransaction :
             /\ topUpTransaction[h].agentId = d1.agentId
             /\ topUpTransaction[h].status = "CONFIRMED"

(* ------------------------ the documented top-up flow ------------------- *)
\* handleTopUp: await submitTopUpTransaction(...) has returned (the SDK
\* throws on any status that is not ok), then getBalance gives the baseline
\* and pollForBalanceUpdate is called with it.
FlowPoll(q, maxPolls) ==
    /\ q.kind = "submit" /\ q.status = 202
    /\ PollStart(q.walletAddress, q.agentId, maxPolls)

FlowPolls == \E q \in Answers, n \in 1..MaxPolls : FlowPoll(q, n)

\* The flow with a reachable balance endpoint: no getBalance of the poll
\* throws.
NextFlow ==
    \/ \E h \in HashChoices, w \in Wallets, a \in AgentIds \cup {UnknownAgent},
          amt \in AmountInEthChoices, c \in CreditsToTopUpChoices :
          /\ NumOfKind("submit") < MaxSubmits
          /\ SubmitInputs(a, amt, c) /\ SubmitCreate(h, w, a, amt, c) /\ UNCHANGED clientVars
    \/ WorkerFinds
    \/ WorkerCredits
    \/ WorkerCatches
    \/ FlowPolls
    \/ PollTick
    \/ PollFetched

\* The handler and the poll make progress: the awaited confirmation step
\* runs, the page goes on after the submission, the interval fires, and a
\* getBalance gets its answer.
SpecFlow ==
    /\ Init /\ [][NextFlow]_vars
    /\ WF_vars(WorkerFinds) /\ WF_vars(WorkerCredits) /\ WF_vars(WorkerCatches)
    /\ WF_vars(FlowPolls)
    /\ WF_vars(PollTick)
    /\ WF_vars(PollFetched)

\* A submission of the flow was accepted and its top-up is CONFIRMED, having
\* credited a positive amount.
FlowCredited ==
    \E q \in Answers :
       /\ q.kind = "submit" /\ q.status = 202
       /\ LET t == topUpTransaction[Val(q.txHash)]
          IN /\ t.status = "CONFIRMED"
             /\ IF agent[t.agentId].feeModelType = FREE_TIER
                THEN Val(DecimalOf(t.amountInEth)) > 0
                ELSE ~IsNull(t.creditsToTopUp) /\ Val(t.creditsToTopUp) > 0

\* C32 (as stated): in the documented flow (await submitTopUpTransaction,
\* getBalance for the baseline, pollForBalanceUpdate with that baseline) a
\* top-up that is confirmed and credits a positive amount eventually has
\* onConfirmation called, and onTimeout is not called for it.
C32_FlowConfirms ==
    /\ (FlowCredited ~> poll.confirmations > 0)
    /\ [](FlowCredited => poll.timeouts = 0)

(* ------------------------ tracks racing for a balance ------------------ *)
MaxRaceReqs == 3      \* track requests in a run

\* No other track request for agent a carries the key k.
KeyFresh(a, k) ==
    \A q \in Running \cup Answers :
        ~(q.kind = "track" /\ q.agentId = a /\ q.idempotencyKey = k)

TrackCounts == \E q \in Running : TrackCount(q) /\ UNCHANGED clientVars
TrackDecsEth == \E q \in Running : TrackDecEth(q) /\ UNCHANGED clientVars
TrackDecsCredits == \E q \in Running : TrackDecCredits(q) /\ UNCHANGED clientVars
TrackCreates == \E q \in Running : TrackCreate(q) /\ UNCHANGED clientVars
TrackCommits == \E q \in Running : TrackCommit(q) /\ UNCHANGED clientVars

\* Track requests with distinct keys, or none, on a funded or empty ledger.
NextRace ==
    \/ \E a \in AgentIds, w \in Wallets,
          k \in {Null} \cup {Some(x) : x \in Keys}, c \in CreditsToDeductChoices :
          /\ NumReqs < MaxRaceReqs /\ TrackInputs(a, k, c)
          /\ IsNull(k) \/ KeyFresh(a, k)
          /\ TrackRead(a, w, k, c) /\ UNCHANGED clientVars
    \/ TrackCounts
    \/ TrackDecsEth
    \/ TrackDecsCredits
    \/ TrackCreates
    \/ TrackCommits

\* The server runs every statement that is not waiting for a lock.
SpecRace ==
    /\ InitRetry /\ [][NextRace]_vars
    /\ WF_vars(TrackCounts) /\ WF_vars(TrackDecsEth) /\ WF_vars(TrackDecsCredits)
    /\ WF_vars(TrackCreates) /\ WF_vars(TrackCommits)

\* What a track request asks to be charged: no event is captured in these
\* runs, so a free-tier agent charges its rate from the first request when
\* its threshold is 0 and never otherwise.
ChargeOf(q) ==
    IF agent[q.agentId].feeModelType = FREE_TIER
    THEN IF agent[q.agentId].threshold = 0 THEN agent[q.agentId].rate ELSE 0
    ELSE CreditsCost(agent[q.agentId], q.creditsToDeduct)

\* The balance of the field agent a charges.
ChargedBalanceOf(w, a) ==
    IF agent[a].feeModelType = FREE_TIER
    THEN EthBalanceOf(w, a) ELSE CreditBalanceOf(w, a)

\* What was credited to the field agent a charges.
ChargedCreditOf(w, a) ==
    IF agent[a].feeModelType = FREE_TIER
    THEN EthCredited(w, a) ELSE CreditsCredited(w, a)

\* The answered tracks of (w, a) with the given status, with multiplicity.
TracksWith(w, a, st) ==
    {q \in Answers : /\ q.kind = "track" /\ q.walletAddress = w
                     /\ q.agentId = a /\ q.status = st}
ChargesWith(w, a, st) ==
    SumOver([q \in Answers |-> CopiesIn(q, answered) * ChargeOf(q)],
            TracksWith(w, a, st))

\* The outcome for one (wallet, agent): tracks end with 200 or 402 only; the
\* balance is what was credited less the charges of the successful tracks,
\* which never exceed what was credited; a refused track asked for more than
\* what is left.
RaceOutcome(w, a) ==
    /\ \A q \in Answers : q.status \in {200, 402}
    /\ \A q \in TracksWith(w, a, 402) : ChargeOf(q) > ChargedBalanceOf(w, a)
    /\ ChargesWith(w, a, 200) <= ChargedCreditOf(w, a)
    /\ Running = {}
          => ChargedBalanceOf(w, a) = ChargedCreditOf(w, a) - ChargesWith(w, a, 200)

\* C33: concurrent track requests for one wallet and agent with different
\* idempotency keys, or none, neither block nor fail each other: every
\* request gets its answer; when the balance covers all the charges all
\* succeed and the balance drops by their sum; a request is refused (402)
\* only when what is left does not cover its charge, so of two requests the
\* balance covers one of exactly one succeeds; and the charges of the
\* successful requests never exceed the balance there was.
C33_TracksRace ==
    /\ [](\A w \in Wallets, a \in AgentIds : RaceOutcome(w, a))
    /\ []<>(Running = {})

\* Three tracks of 2 credits raced for a balance of 3: one succeeded.
C33_Witness ==
    /\ Running = {}
    /\ ChargesWith("w1", "aCredit", 200) = 2
    /\ ChargesWith("w1", "aCredit", 402) = 4
    /\ CreditBalanceOf("w1", "aCredit") = 1

(* --------------------------- ledger conservation ----------------------- *)
\* The events of (w, a) that hold their deduction: PENDING and CAPTURED.
HoldingEvents(w, a) ==
    {e \in EventsOf(w, a) : usageEvent[e].status \in {"PENDING", "CAPTURED"}}

\* C34 (as stated): in every reachable state and for every (wallet, agent),
\* the balance plus the recorded deductions of the pair's PENDING and
\* CAPTURED events equals the sum of the CONFIRMED top-up amounts credited to
\* the pair, for ETH and for credits; CANCELLED events contribute nothing.
C34_LedgerConservation ==
    \A w \in Wallets, a \in AgentIds :
        /\ EthBalanceOf(w, a)
              + SumOver([e \in DOMAIN usageEvent |-> FeeOf(e)], HoldingEvents(w, a))
              = EthCredited(w, a)
        /\ CreditBalanceOf(w, a)
              + SumOver([e \in DOMAIN usageEvent |-> CreditsOf(e)], HoldingEvents(w, a))
              = CreditsCredited(w, a)

(* ----------------------- SDK track without a key ----------------------- *)
\* track is called without an idempotencyKey: JSON.stringify leaves the
\* undefined field out of the body of every attempt.
NextKeyless ==
    \/ \E a \in AgentIds, w \in Wallets : RetryTrack(a, w, Null)
    \/ NumReqs < MaxRetryReqs /\ RetrySend
    \/ RetryReceive
    \/ FetchRejects
    \/ ApiCallTimeout
    \/ BackoffDone
    \/ \E q \in Running : TrackCount(q) /\ UNCHANGED clientVars
    \/ \E q \in Running : TrackDecEth(q) /\ UNCHANGED clientVars
    \/ \E q \in Running : TrackDecCredits(q) /\ UNCHANGED clientVars
    \/ \E q \in Running : TrackCreate(q) /\ UNCHANGED clientVars
    \/ \E q \in Running : TrackCommit(q) /\ UNCHANGED clientVars

SpecKeyless == InitRetry /\ [][NextKeyless]_vars

\* The UsageEvents created by the requests of the n-th track call.
EventsOfCall(n) ==
    {q.body.val : q \in {x \in Answers : /\ x.kind = "track" /\ x.status = 200
                                          /\ ~IsNull(x.attempt)
                                          /\ Val(x.attempt)[1] = n}}

\* C35 (as stated): one SDK track() call made without an idempotencyKey
\* causes at most one UsageEvent and at most one balance deduction on the
\* server, also when an attempt commits but its response is lost and the
\* SDK retries.
C35_KeylessTrackOnce ==
    \A n \in 1..MaxRetryReqs :
        /\ Cardinality(EventsOfCall(n)) <= 1
        /\ Cardinality({e \in EventsOfCall(n) : FeeOf(e) + CreditsOf(e) > 0}) <= 1

(* --------------------- callbacks of one poll --------------------------- *)
\* C36 (as stated): for one pollForBalanceUpdate call exactly one of the
\* callbacks onConfirmation / onTimeout is invoked, and it is invoked once,
\* also when several interval ticks have their balance fetches in flight at
\* the same time: never more than one invocation in all, and exactly one
\* once the polling has stopped and no fetch is in flight.
C36_OneCallback ==
    /\ poll.confirmations + poll.timeouts <= 1
    /\ poll.interval = "cleared" /\ poll.pending = 0
          => poll.confirmations + poll.timeouts = 1

(* ------------------------ after the SDK timeout ------------------------ *)
\* C37 (as stated): once the global request timeout has fired during an SDK
\* call, _apiCall starts no further attempt and no further backoff wait,
\* and the call's next step is to fail with the timeout error (408).
C37_NoAttemptAfterTimeout ==
    [][call.timer = "fired"
         => /\ call'.i = call.i
            /\ Len(call'.delays) = Len(call.delays)
            /\ call'.pc # call.pc => call'.pc = "thrown" /\ call'.result = 408]_vars

(* ------------------- fee model changed under the ledger ---------------- *)
MaxRepriceReqs == 3   \* track, capture, release and update requests in a run

\* Fee models a developer switches an agent to (type and matching config).
RepriceChoices ==
    { [feeModelType |-> FREE_TIER, threshold |-> 0, rate |-> 2, creditsPerPrompt |-> 0],
      [feeModelType |-> CREDIT_BASED, threshold |-> 0, rate |-> 0,
       creditsPerPrompt |-> 1] }

\* PUT /api/agents/[agentId] with feeModelType and feeModelConfig: one
\* agent.update; the agent exists.
UpdateFeeModel(a, row) ==
    /\ a \in DOMAIN agent
    /\ agent' = [agent EXCEPT ![a] = row]
    /\ Arrive(Finished([NewReq("updateAgent", "update") EXCEPT !.agentId = a],
                       200, NoBody))
    /\ UNCHANGED <<userBalance, usageEvent, topUpTransaction, nextId>>

\* Tracks, captures and releases on a funded or empty ledger while the
\* developer changes the agents' fee models.
NextReprice ==
    \/ \E a \in AgentIds, w \in Wallets :
          NumReqs < MaxRepriceReqs /\ TrackRead(a, w, Null, Null) /\ UNCHANGED clientVars
    \/ TrackCounts
    \/ TrackDecsEth
    \/ TrackDecsCredits
    \/ TrackCreates
    \/ TrackCommits
    \/ \E e \in DOMAIN usageEvent :
          NumReqs < MaxRepriceReqs /\ Capture(e) /\ UNCHANGED clientVars
    \/ \E e \in DOMAIN usageEvent :
          NumReqs < MaxRepriceReqs /\ ReleaseFind(e) /\ UNCHANGED clientVars
    \/ \E q \in Running : ReleaseRefund(q) /\ UNCHANGED clientVars
    \/ \E q \in Running : ReleaseCancel(q) /\ UNCHANGED clientVars
    \/ \E q \in Running : ReleaseCommit(q) /\ UNCHANGED clientVars
    \/ \E q \in Running : DeadlockAbort(q) /\ UNCHANGED clientVars
    \/ \E a \in AgentIds, row \in RepriceChoices :
          NumReqs < MaxRepriceReqs /\ UpdateFeeModel(a, row) /\ UNCHANGED clientVars

SpecReprice == InitRetry /\ [][NextReprice]_vars

\* The count statement of a FREE_TIER track decides by the CAPTURED events
\* of the wallet and the threshold and rate the handler read.
CountsCapturedOnly ==
    \A q \in Acting :
        (q.kind = "track" /\ q.pc = "count")
        => \E q2 \in MovedNow :
              q2.feeToDeduct =
                 IF Cardinality(CapturedEvents(q.walletAddress, q.agentId))
                       < Val(q.feeModel).threshold
                 THEN Null ELSE Some(Val(q.feeModel).rate)

\* C38: release refunds from the amounts recorded on the event, not from
\* the agent's current configuration: track records on the event what it
\* took, and whatever the agent's fee model type, rate or creditsPerPrompt
\* has become since, the commit of a release adds exactly the recorded
\* feeDeducted to ethBalance and the recorded creditsDeducted to
\* creditBalance; and a FREE_TIER decision counts CAPTURED events only.
C38_RefundFromRecord ==
    [][ReleaseRefundsRecorded /\ TrackRecordsDeducted /\ CountsCapturedOnly]_vars

\* An event that holds 2 credits was released after its agent had been
\* switched to FREE_TIER: the credits are back.
C38_Witness ==
    \E e \in DOMAIN usageEvent :
       /\ usageEvent[e].status = "CANCELLED"
       /\ usageEvent[e].creditsDeducted = Some(2)
       /\ agent[usageEvent[e].agentId].feeModelType = FREE_TIER
       /\ \E q \in Answers : q.kind = "release" /\ q.eventId = e /\ q.status = 200
       /\ CreditBalanceOf("w1", usageEvent[e].agentId) = 3

(* --------------------------- store failures ---------------------------- *)
MaxFaultReqs == 3     \* track and release requests in a run

\* Tracks and releases on a store that can fail under any statement (the
\* abort of a deadlocked release is one of these failures).
NextFault ==
    \/ \E a \in AgentIds, w \in Wallets :
          NumReqs < MaxFaultReqs /\ TrackRead(a, w, Null, Null) /\ UNCHANGED clientVars
    \/ TrackCounts
    \/ TrackDecsEth
    \/ TrackDecsCredits
    \/ TrackCreates
    \/ TrackCommits
    \/ \E e \in DOMAIN usageEvent :
          NumReqs < MaxFaultReqs /\ ReleaseFind(e) /\ UNCHANGED clientVars
    \/ \E q \in Running : ReleaseRefund(q) /\ UNCHANGED clientVars
    \/ \E q \in Running : ReleaseCancel(q) /\ UNCHANGED clientVars
    \/ \E q \in Running : ReleaseCommit(q) /\ UNCHANGED clientVars
    \/ \E q \in Running, error \in StoreErrors :
          StoreFails(q, error) /\ UNCHANGED clientVars

SpecFault == InitRetry /\ [][NextFault]_vars

\* C39 (as stated): a store failure during track or release that is neither
\* a validation error, a missing agent or event, an insufficient balance nor
\* a uniqueness conflict is answered with a 5xx status, which the SDK
\* classifies as retryable; it is never answered with a 4xx.
C39_StoreFailureIs5xx ==
    \A q \in Answers :
        q.fault => /\ q.status >= 500 /\ q.status <= 599
                   /\ IsErrorRetryable([type |-> "api", status |-> q.status])
====
